---- MODULE Spec2Model ----
(***************************************************************************)
(* State-machine model of the autopuppet rig core: the deformers           *)
(* (engine/deformer.ts), the RigRenderer deformation pipeline              *)
(* (engine/renderer.ts), the Verlet physics chain and engine               *)
(* (engine/physics.ts) and the mesh builder's retry loop (ai/meshGen.ts).  *)
(*                                                                         *)
(* Numbers.  JavaScript numbers are modelled as exact rationals <<n, d>>   *)
(* in lowest terms with d > 0; NaN is the pair <<0, 0>>.  IEEE rounding is *)
(* not modelled: the inputs are small integers, for which the Float32Array *)
(* stores of the loader are exact.  A read past the end of a typed array   *)
(* yields undefined, which every arithmetic operator turns into NaN.       *)
(***************************************************************************)
EXTENDS Integers, Sequences, FiniteSets, TLC

(***************************************************************************)
(* Bounds of the model                                                     *)
(***************************************************************************)
MaxGrid == 3          \* warp grids of 1..MaxGrid columns and rows
MaxQuarterTurns == 2  \* parameter values are k * 90 for |k| <= MaxQuarterTurns
MaxTurns == 1         \* renderer parameter values are k * 90 for k in 0..MaxTurns
MaxLoadCalls == 1     \* loadRig calls in one run of the renderer
MaxCoord == 2         \* vertex coordinates of the deformer inputs: -2, 0, .., 2 * MaxCoord - 2
MaxChains == 2        \* chains added to one PhysicsEngine
MaxSteps == 2         \* PhysicsEngine.step calls in one run
FxOne == 64           \* physics numbers are kept to multiples of 1 / FxOne
MaxMaskWidth == 3     \* masks are 1..MaxMaskWidth pixels wide
MaxMaskHeight == 2    \* masks are 1..MaxMaskHeight pixels high
MaxContourLen == 4    \* contours given to simplifyContour have 1..MaxContourLen points
MaxContourCoord == 2  \* with x in 0..MaxContourCoord and y in 0..1
MaxBoxSize == 2       \* texture boxes given to computeUVs are 1..MaxBoxSize wide and high
MaxChainSegments == 2 \* chains given to getAngle have 1..MaxChainSegments segments
MaxRigParts == 2      \* rig files given to loadRig have 0..MaxRigParts parts
MaxBusOps == 4        \* on, off and emit calls in one run of an EventBus
OverlapPixels == 2    \* masks given to resolveOverlaps are OverlapPixels x 1 pixels
MaxPointCoord == 2    \* points given to constrain have coordinates 0..MaxPointCoord
MaxReloads == 2       \* rigLoaded events in one run
MaxRequests == 3      \* workerRequest calls in one run

(***************************************************************************)
(* Rational arithmetic with NaN                                            *)
(***************************************************************************)
NaN == <<0, 0>>

IsNaN(a) == a[2] = 0

Abs(n) == IF n < 0 THEN -n ELSE n

RECURSIVE Gcd(_, _)
Gcd(a, b) == IF b = 0 THEN a ELSE Gcd(b, a % b)

Norm(n, d) ==
  IF d = 0 THEN NaN
  ELSE IF d = 1 THEN <<n, 1>>
  ELSE LET g == Gcd(Abs(n), Abs(d))
           s == IF d < 0 THEN -1 ELSE 1
       IN  <<(s * n) \div g, (s * d) \div g>>

R(n) == <<n, 1>>

Frac(n, d) == Norm(n, d)

RAdd(a, b) == IF IsNaN(a) \/ IsNaN(b) THEN NaN
              ELSE Norm(a[1] * b[2] + b[1] * a[2], a[2] * b[2])

RNeg(a) == IF IsNaN(a) THEN NaN ELSE <<-a[1], a[2]>>

RSub(a, b) == RAdd(a, RNeg(b))

RMul(a, b) == IF IsNaN(a) \/ IsNaN(b) THEN NaN
              ELSE Norm(a[1] * b[1], a[2] * b[2])

\* a / b for b # 0 (the schema keeps every divisor of the deformers positive)
RDiv(a, b) == IF IsNaN(a) \/ IsNaN(b) THEN NaN
              ELSE Norm(a[1] * b[2], a[2] * b[1])

RLt(a, b) == ~IsNaN(a) /\ ~IsNaN(b) /\ a[1] * b[2] < b[1] * a[2]

\* Math.max / Math.min / Math.abs / Math.floor: NaN in, NaN out
RMax(a, b) == IF IsNaN(a) \/ IsNaN(b) THEN NaN ELSE IF RLt(a, b) THEN b ELSE a

RMin(a, b) == IF IsNaN(a) \/ IsNaN(b) THEN NaN ELSE IF RLt(b, a) THEN b ELSE a

RAbs(a) == IF IsNaN(a) THEN NaN ELSE <<Abs(a[1]), a[2]>>

RFloor(a) == IF IsNaN(a) THEN NaN ELSE R(a[1] \div a[2])

IsFinite(a) == ~IsNaN(a)

\* new Float32Array(n) filled with the values of f: a sequence
Float32Array(f) == f \o <<>>

\* arr[i] for a 0-based JavaScript index i given as a number: an index that
\* is NaN or outside the array reads undefined, which arithmetic makes NaN
ReadAt(arr, i) ==
  IF IsNaN(i) \/ i[2] # 1 \/ i[1] < 0 \/ i[1] >= Len(arr) THEN NaN
  ELSE arr[i[1] + 1]

(***************************************************************************)
(* engine/deformer.ts : warp offsets                                       *)
(***************************************************************************)
WarpModes == {"squeeze_center", "stretch_bottom", "curve_ends_up", "scale_y"}

\* row / (rows - 1), or the mode's fallback for a single row
RowNorm(row, rows, single) == IF rows > 1 THEN Frac(row, rows - 1) ELSE single

squeezeCenter(cols, rows, bbox, t, row, col) ==
  LET maxShift == RMul(R(bbox.h), Frac(1, 4))
      rowNorm  == RowNorm(row, rows, Frac(1, 2))
      squeeze  == RMul(RSub(Frac(1, 2), rowNorm), R(-2))
  IN  RMul(RMul(RNeg(squeeze), maxShift), t)

stretchBottom(cols, rows, bbox, t, row, col) ==
  LET maxShift == RMul(R(bbox.h), Frac(3, 10))
      rowNorm  == RowNorm(row, rows, R(0))
  IN  RMul(RMul(rowNorm, maxShift), t)

curveEndsUp(cols, rows, bbox, t, row, col) ==
  LET maxShift   == RMul(R(bbox.h), Frac(1, 5))
      rowNorm    == RowNorm(row, rows, Frac(1, 2))
      rowFactor  == RMax(R(0), RMul(RSub(rowNorm, Frac(1, 2)), R(2)))
      colNorm    == IF cols > 1 THEN Frac(col, cols - 1) ELSE Frac(1, 2)
      edgeFactor == RMul(RAbs(RSub(colNorm, Frac(1, 2))), R(2))
  IN  RMul(RMul(RMul(RNeg(edgeFactor), rowFactor), maxShift), t)

scaleY(cols, rows, bbox, t, row, col) ==
  LET centerY == RAdd(R(bbox.y), RDiv(R(bbox.h), R(2)))
      scale   == RMul(t, Frac(1, 50))
      gridY   == IF rows > 1
                 THEN RAdd(R(bbox.y), RMul(Frac(row, rows - 1), R(bbox.h)))
                 ELSE centerY
  IN  RMul(RSub(gridY, centerY), scale)

\* The flat offsets array [dx0, dy0, dx1, dy1, ...] of length cols * rows * 2;
\* the x components keep the 0 the array is created with.
computeWarpOffsets(cols, rows, bbox, mode, t) ==
  Float32Array([k \in 1..(cols * rows * 2) |->
     LET idx == (k - 1) \div 2
         row == idx \div cols
         col == idx % cols
     IN  IF (k - 1) % 2 = 0 THEN R(0)
         ELSE CASE mode = "squeeze_center" -> squeezeCenter(cols, rows, bbox, t, row, col)
                []  mode = "stretch_bottom" -> stretchBottom(cols, rows, bbox, t, row, col)
                []  mode = "curve_ends_up"  -> curveEndsUp(cols, rows, bbox, t, row, col)
                []  mode = "scale_y"        -> scaleY(cols, rows, bbox, t, row, col)])

(***************************************************************************)
(* engine/deformer.ts : WarpDeformer.apply and RotateDeformer.apply        *)
(*                                                                         *)
(* A deformer is the record the rig format stores (rig.ts):                *)
(*   [type |-> "warp", paramBinding, gridSize |-> <<cols, rows>>, bbox,    *)
(*    mode]  or  [type |-> "rotate", paramBinding, origin, childrenFollow] *)
(* A vertex buffer is the flat sequence <<x0, y0, x1, y1, ...>>.           *)
(***************************************************************************)

\* The value written to out[k - 1] by the loop of WarpDeformer.apply
WarpOutAt(cols, rows, bbox, offsets, vertices, k) ==
  LET i    == 2 * ((k - 1) \div 2)
      vx   == ReadAt(vertices, R(i))
      vy   == ReadAt(vertices, R(i + 1))
      gx   == RMul(RDiv(RSub(vx, R(bbox.x)), R(bbox.w)), R(cols - 1))
      gy   == RMul(RDiv(RSub(vy, R(bbox.y)), R(bbox.h)), R(rows - 1))
      col0 == RMax(R(0), RMin(R(cols - 2), RFloor(gx)))
      row0 == RMax(R(0), RMin(R(rows - 2), RFloor(gy)))
      col1 == RAdd(col0, R(1))
      row1 == RAdd(row0, R(1))
      fx   == RMax(R(0), RMin(R(1), RSub(gx, col0)))
      fy   == RMax(R(0), RMin(R(1), RSub(gy, row0)))
      i00  == RMul(RAdd(RMul(row0, R(cols)), col0), R(2))
      i10  == RMul(RAdd(RMul(row0, R(cols)), col1), R(2))
      i01  == RMul(RAdd(RMul(row1, R(cols)), col0), R(2))
      i11  == RMul(RAdd(RMul(row1, R(cols)), col1), R(2))
      w00  == RMul(RSub(R(1), fx), RSub(R(1), fy))
      w10  == RMul(fx, RSub(R(1), fy))
      w01  == RMul(RSub(R(1), fx), fy)
      w11  == RMul(fx, fy)
      ox   == RAdd(RAdd(RAdd(RMul(w00, ReadAt(offsets, i00)),
                             RMul(w10, ReadAt(offsets, i10))),
                        RMul(w01, ReadAt(offsets, i01))),
                   RMul(w11, ReadAt(offsets, i11)))
      oy   == RAdd(RAdd(RAdd(RMul(w00, ReadAt(offsets, RAdd(i00, R(1)))),
                             RMul(w10, ReadAt(offsets, RAdd(i10, R(1))))),
                        RMul(w01, ReadAt(offsets, RAdd(i01, R(1))))),
                   RMul(w11, ReadAt(offsets, RAdd(i11, R(1)))))
  IN  IF (k - 1) % 2 = 0 THEN RAdd(vx, ox) ELSE RAdd(vy, oy)

\* The buffer WarpDeformer.apply returns
WarpDeformer_apply(d, vertices, paramValue) ==
  LET cols    == d.gridSize[1]
      rows    == d.gridSize[2]
      offsets == computeWarpOffsets(cols, rows, d.bbox, d.mode, paramValue)
  IN  Float32Array([k \in 1..Len(vertices) |->
                      WarpOutAt(cols, rows, d.bbox, offsets, vertices, k)])

\* Math.cos / Math.sin of paramValue * DEG_TO_RAD, for the whole quarter
\* turns the model draws its parameter values from
QuarterTurn(paramValue) == (paramValue[1] \div 90) % 4

CosDeg(paramValue) ==
  IF IsNaN(paramValue) THEN NaN
  ELSE CASE paramValue[2] = 1 /\ paramValue[1] % 90 = 0 ->
            R(<<1, 0, -1, 0>>[QuarterTurn(paramValue) + 1])

SinDeg(paramValue) ==
  IF IsNaN(paramValue) THEN NaN
  ELSE CASE paramValue[2] = 1 /\ paramValue[1] % 90 = 0 ->
            R(<<0, 1, 0, -1>>[QuarterTurn(paramValue) + 1])

\* The buffer RotateDeformer.apply returns
RotateDeformer_apply(d, vertices, paramValue) ==
  LET cos == CosDeg(paramValue)
      sin == SinDeg(paramValue)
      originX == R(d.origin[1])
      originY == R(d.origin[2])
  IN  Float32Array([k \in 1..Len(vertices) |->
         LET i  == 2 * ((k - 1) \div 2)
             dx == RSub(ReadAt(vertices, R(i)), originX)
             dy == RSub(ReadAt(vertices, R(i + 1)), originY)
         IN  IF (k - 1) % 2 = 0
             THEN RSub(RAdd(originX, RMul(dx, cos)), RMul(dy, sin))
             ELSE RAdd(RAdd(originY, RMul(dx, sin)), RMul(dy, cos))])

\* RotateDeformer.getTransform
getTransform(d, paramValue) ==
  [cos |-> CosDeg(paramValue), sin |-> SinDeg(paramValue),
   originX |-> R(d.origin[1]), originY |-> R(d.origin[2])]

\* DeformerInstance.apply, dispatched on the variant
DeformerApply(d, vertices, paramValue) ==
  IF d.type = "warp" THEN WarpDeformer_apply(d, vertices, paramValue)
  ELSE RotateDeformer_apply(d, vertices, paramValue)

\* The two buffers after a call of apply: `out` is a fresh
\* Float32Array(vertices.length) and the loop writes out[i] only.
ApplyInPlace(d, vertices, paramValue) ==
  LET res == DeformerApply(d, vertices, paramValue)
  IN  [vertices |-> res, out |-> res]

ApplyBuffers(d, vertices, paramValue) ==
  [vertices |-> vertices, out |-> DeformerApply(d, vertices, paramValue)]

(***************************************************************************)
(* State                                                                   *)
(***************************************************************************)
VARIABLES
  dIn,    \* deformer call: the caller's vertex buffer
  dOut,   \* deformer call: the buffer apply returned
  dCall,  \* deformer call: the call made, [type |-> "none"] before it
  rParts,     \* RigRenderer.parts: the PartStates in Map insertion order
  rParams,    \* RigRenderer.paramValues: parameter id -> value
  rSelected,  \* RigRenderer.selectedPartId ("null" for null)
  rLoads,     \* the loadRig calls suspended at `await Assets.load`
  rLoadCalls, \* number of loadRig calls made so far
  rEvalOrder, \* ghost: the part ids in the order the last deformation pass evaluated them
  rRequested, \* ghost: the rigs of the loadRig calls made, in call order
  wSent,      \* inpaint worker: number of workerRequest calls made (request k is the k-th)
  wListeners, \* inpaint worker: the 'message' listeners of the child process, by request, in `on` order
  wInbox,     \* inpaint worker: the messages sent to the worker and not yet received, oldest first
  wRunning,   \* inpaint worker: the requests whose handler in the worker is at an `await`
  wReplies,   \* inpaint worker: the replies sent to the main process and not yet received, oldest first
  wSettled,   \* ghost: request -> the request whose reply settled its promise
  pChains,    \* PhysicsEngine.chains: the PhysicsChainBindings in push order
  pResult,    \* the Record the last PhysicsEngine.step returned
  pSteps,     \* number of step calls made so far
  pPrev,      \* ghost: PhysicsEngine.chains as the last step call found them
  pLast,      \* ghost: the arguments of the last step call, [type |-> "none"] before it
  mPc,        \* generateMesh: "idle", "loop" (at the head of the for loop), "returned", "thrown"
  mAttempt,   \* generateMesh: the loop variable `attempt`
  mDensity,   \* generateMesh: the local `density`
  mMesh,      \* generateMesh: the local `mesh` (NoMesh for null)
  mErrors,    \* generateMesh: validation.errors of the last attempt
  mRuns,      \* ghost: pipeline runs of the current generateMesh call
  mCall,      \* ghost: the arguments of the generateMesh call, NoCall before it
  mContour,   \* generateMesh: the local `contour`
  mSimplified,\* generateMesh: the local `simplified`
  mOutcome,   \* what the generateMesh call returned or threw, NoCall until then
  eMask,      \* extractContour: the argument `mask`
  bListeners, \* EventBus.listeners
  bSubscribed,\* ghost: the <<event, callback>> pairs added with on and not since removed with off
  bCalls,     \* ghost: the callback invocations the last emit made, in order
  bLast,      \* ghost: the last emit call, NoCall before it
  bOps,       \* number of EventBus calls made so far
  fCall,      \* a call of a stateless function: its name and arguments, NoCall before it
  fRet,       \* what that call returned
  eTrace      \* extractContour: pc ("idle", "loop", "returned") and the locals startX/Y, cx/cy, dir, steps, contour

deformerVars == <<dIn, dOut, dCall>>

rendererVars == <<rParts, rParams, rSelected, rLoads, rLoadCalls, rEvalOrder>>

physicsVars == <<pChains, pResult, pSteps, pPrev, pLast>>

meshVars == <<mPc, mAttempt, mDensity, mMesh, mErrors, mRuns, mCall, mContour, mSimplified, mOutcome>>

contourVars == <<eMask, eTrace>>

callVars == <<fCall, fRet>>

busVars == <<bListeners, bSubscribed, bCalls, bLast, bOps>>

reloadVars == <<rRequested>>

workerVars == <<wSent, wListeners, wInbox, wRunning, wReplies, wSettled>>

vars == <<dIn, dOut, dCall, rParts, rParams, rSelected, rLoads, rLoadCalls, rEvalOrder,
          pChains, pResult, pSteps, pPrev, pLast,
          mPc, mAttempt, mDensity, mMesh, mErrors, mRuns,
          mCall, mContour, mSimplified, mOutcome,
          eMask, eTrace, fCall, fRet,
          bListeners, bSubscribed, bCalls, bLast, bOps, rRequested,
          wSent, wListeners, wInbox, wRunning, wReplies, wSettled>>

NoCall == [type |-> "none"]

(***************************************************************************)
(* A single call of DeformerInstance.apply on a caller-owned buffer        *)
(***************************************************************************)
BBoxes == {[x |-> 0, y |-> 0, w |-> 4, h |-> 4], [x |-> 1, y |-> 0, w |-> 2, h |-> 5]}

\* the warp configurations WarpDeformerSchema accepts, up to MaxGrid
WarpConfigs ==
  {[type |-> "warp", paramBinding |-> "head_angle_y", gridSize |-> <<c, r>>,
    bbox |-> b, mode |-> m] : c \in 1..MaxGrid, r \in 1..MaxGrid, b \in BBoxes, m \in WarpModes}

RotateConfigs ==
  {[type |-> "rotate", paramBinding |-> "head_angle_x", origin |-> o, childrenFollow |-> f] :
     o \in {<<0, 0>>, <<2, 1>>}, f \in BOOLEAN}

ParamVals == {R(90 * k) : k \in (-MaxQuarterTurns)..MaxQuarterTurns}

Coords == {2 * i - 2 : i \in 0..MaxCoord}

DeformerInputs ==
  {<<R(x), R(y)>> : x \in Coords, y \in Coords}
    \cup {<<R(x), R(0), R(2), R(x)>> : x \in Coords}

DeformerIdle == dIn = <<>> /\ dOut = <<>> /\ dCall = NoCall

DeformerInit == dIn \in DeformerInputs /\ dOut = <<>> /\ dCall = NoCall

\* result = instance.apply(dIn, value)
CallApply(d, value) ==
  /\ dCall = NoCall
  /\ LET bufs == ApplyBuffers(d, dIn, value)
     IN  /\ dIn' = bufs.vertices
         /\ dOut' = bufs.out
  /\ dCall' = [type |-> d.type, deformer |-> d, vertices |-> dIn, value |-> value]

CallWarp == \E d \in WarpConfigs, value \in ParamVals : CallApply(d, value)

CallRotate == \E d \in RotateConfigs, value \in ParamVals : CallApply(d, value)

(***************************************************************************)
(* ai/rigRules.ts : the part hierarchy (buildHierarchy)                    *)
(***************************************************************************)
PartIds == {"face", "hair_back"}

\* PARENT_RULES, in order: <<pattern, parent>>
PARENT_RULES ==
  << <<"^eye_", "face">>, <<"^mouth", "face">>, <<"^nose", "face">>, <<"^ear_", "face">>,
     <<"^hair", "face">>, <<"^arm_lower_left", "arm_upper_left">>,
     <<"^arm_lower_right", "arm_upper_right">>, <<"^arm_upper_", "body">> >>

\* pattern.test(name), for the part ids of the model
RegexTest(pattern, name) == <<pattern, name>> \in {<<"^hair", "hair_back">>}

\* parentOf.get(name) of buildHierarchy(partNames): the parent of the first
\* rule whose pattern matches and whose parent is a part, else "null"
RECURSIVE ParentFrom(_, _, _)
ParentFrom(i, name, nameSet) ==
  IF i > Len(PARENT_RULES) THEN "null"
  ELSE IF RegexTest(PARENT_RULES[i][1], name) /\ PARENT_RULES[i][2] \in nameSet
       THEN PARENT_RULES[i][2]
       ELSE ParentFrom(i + 1, name, nameSet)

ParentOf(name, nameSet) == ParentFrom(1, name, nameSet)

(***************************************************************************)
(* The rigs the renderer is given (engine/rig.ts shapes; texture, uvs and  *)
(* triangles are left out: no deformation reads them)                      *)
(***************************************************************************)
FaceRotate ==
  [type |-> "rotate", paramBinding |-> "head_angle_x", origin |-> <<2, 2>>,
   childrenFollow |-> TRUE]

FaceWarp ==
  [type |-> "warp", paramBinding |-> "head_angle_y", gridSize |-> <<2, 2>>,
   bbox |-> [x |-> 0, y |-> 0, w |-> 4, h |-> 4], mode |-> "stretch_bottom"]

HairRotate ==
  [type |-> "rotate", paramBinding |-> "hair_back_physics", origin |-> <<2, 0>>,
   childrenFollow |-> FALSE]

FacePart(z) ==
  [id |-> "face", zIndex |-> z,
   mesh |-> [vertices |-> <<<<0, 0>>, <<4, 0>>, <<2, 4>>>>],
   deformers |-> <<FaceRotate, FaceWarp>>]

HairPart(z) ==
  [id |-> "hair_back", zIndex |-> z,
   mesh |-> [vertices |-> <<<<1, 0>>, <<3, 0>>, <<2, 3>>>>],
   deformers |-> <<HairRotate>>]

ParamIds == {"head_angle_x", "head_angle_y", "hair_back_physics"}

RigParameters ==
  << [id |-> "head_angle_x", default |-> R(0)],
     [id |-> "head_angle_y", default |-> R(90)],
     [id |-> "hair_back_physics", default |-> R(0)] >>

\* hair drawn behind the face (zIndex 0 < 1) or in front of it (2 > 1)
Rigs ==
  {[parts |-> <<FacePart(1), HairPart(z)>>, parameters |-> RigParameters] : z \in {0, 2}}

(***************************************************************************)
(* engine/renderer.ts : RigRenderer                                        *)
(***************************************************************************)
\* [...rig.parts].sort((a, b) => a.zIndex - b.zIndex): a stable sort
RECURSIVE InsertByZ(_, _)
InsertByZ(sorted, part) ==
  IF sorted = <<>> THEN <<part>>
  ELSE IF Head(sorted).zIndex <= part.zIndex
       THEN <<Head(sorted)>> \o InsertByZ(Tail(sorted), part)
       ELSE <<part>> \o sorted

RECURSIVE SortByZ(_)
SortByZ(parts) ==
  IF parts = <<>> THEN <<>>
  ELSE InsertByZ(SortByZ(SubSeq(parts, 1, Len(parts) - 1)), parts[Len(parts)])

\* [[x, y], ...] -> Float32Array [x0, y0, x1, y1, ...]
FlattenVertices(vertices) ==
  Float32Array([k \in 1..(2 * Len(vertices)) |-> R(vertices[(k + 1) \div 2][2 - (k % 2)])])

RECURSIVE MinOf(_)
MinOf(S) == LET x == CHOOSE x \in S : TRUE
            IN  IF S = {x} THEN x
                ELSE LET m == MinOf(S \ {x}) IN IF RLt(x, m) THEN x ELSE m

RECURSIVE MaxOf(_)
MaxOf(S) == LET x == CHOOSE x \in S : TRUE
            IN  IF S = {x} THEN x
                ELSE LET m == MaxOf(S \ {x}) IN IF RLt(m, x) THEN x ELSE m

\* computeBBox of a non-empty position buffer
computeBBox(positions) ==
  LET xs == {positions[k] : k \in {j \in 1..Len(positions) : j % 2 = 1}}
      ys == {positions[k] : k \in {j \in 1..Len(positions) : j % 2 = 0}}
  IN  [x |-> MinOf(xs), y |-> MinOf(ys),
       w |-> RSub(MaxOf(xs), MinOf(xs)), h |-> RSub(MaxOf(ys), MinOf(ys))]

\* createDeformer(config, partBbox): the instance for the stored variant.  A
\* warp instance takes the grid, bbox and mode of its config (in the rigs of
\* the model that bbox is also the part's bounding box).
createDeformer(config, partBbox) ==
  IF config.type = "warp"
  THEN [type |-> "warp", gridSize |-> config.gridSize, bbox |-> config.bbox,
        mode |-> config.mode]
  ELSE [type |-> "rotate", origin |-> config.origin,
        childrenFollow |-> config.childrenFollow]

\* The PartState loadRig stores for a part: `positions` is the geometry's
\* buffer (positions.slice(), a working copy) and `basePositions` the
\* original.  `listening` says the mesh has its pointerdown handler;
\* `deformed` is a ghost: a deformation pass has written the geometry.
NewPartState(part) ==
  LET positions == FlattenVertices(part.mesh.vertices)
      partBbox  == computeBBox(positions)
  IN  [id |-> part.id, part |-> part,
       basePositions |-> positions,
       positions |-> positions,
       deformers |-> [k \in 1..Len(part.deformers) |->
                        [instance |-> createDeformer(part.deformers[k], partBbox),
                         paramBinding |-> part.deformers[k].paramBinding]],
       listening |-> FALSE,
       deformed |-> FALSE]

\* Map.set(key, state): a new key is appended, an existing key keeps its place
MapSet(parts, state) ==
  IF \E k \in 1..Len(parts) : parts[k].id = state.id
  THEN [k \in 1..Len(parts) |-> IF parts[k].id = state.id THEN state ELSE parts[k]]
  ELSE Append(parts, state)

\* paramValues.set(id, value)
ParamSet(paramValues, id, value) ==
  [p \in DOMAIN paramValues \cup {id} |-> IF p = id THEN value ELSE paramValues[p]]

\* paramValues.get(id) ?? 0
ParamGet(paramValues, id) ==
  IF id \in DOMAIN paramValues THEN paramValues[id] ELSE R(0)

EmptyMap == [p \in {} |-> R(0)]

\* the inner loop of applyDeformations, from deformer i on
RECURSIVE DeformLoop(_, _, _, _)
DeformLoop(deformers, i, positions, paramValues) ==
  IF i > Len(deformers) THEN positions
  ELSE DeformLoop(deformers, i + 1,
                  DeformerApply(deformers[i].instance, positions,
                                ParamGet(paramValues, deformers[i].paramBinding)),
                  paramValues)

\* applyDeformations with the pass started from the live geometry
applyDeformationsFromLive(parts, paramValues) ==
  [k \in 1..Len(parts) |->
     [parts[k] EXCEPT !.positions = DeformLoop(parts[k].deformers, 1,
                                               parts[k].positions, paramValues),
                      !.deformed = TRUE]]

\* applyDeformations with the result also written over the base buffer
applyDeformationsOverBase(parts, paramValues) ==
  [k \in 1..Len(parts) |->
     LET out == DeformLoop(parts[k].deformers, 1, parts[k].basePositions, paramValues)
     IN  [parts[k] EXCEPT !.positions = out, !.basePositions = out, !.deformed = TRUE]]

\* applyDeformations(): every PartState, in Map order, gets its deformers
\* applied in list order to its base positions
applyDeformations(parts, paramValues) ==
  [k \in 1..Len(parts) |->
     [parts[k] EXCEPT !.positions = DeformLoop(parts[k].deformers, 1,
                                               parts[k].basePositions, paramValues),
                      !.deformed = TRUE]]

\* the order in which that pass visits the parts
EvalOrderOf(parts) == [k \in 1..Len(parts) |-> parts[k].id]

RendererIdle ==
  /\ rParts = <<>>
  /\ rParams = EmptyMap
  /\ rSelected = "null"
  /\ rLoads = <<>>
  /\ rLoadCalls = 0
  /\ rEvalOrder = <<>>

\* loadRig(rig, textureBasePath) up to its first `await`: clear(), the
\* parameter defaults, the sort
LoadRigBegin(rig) ==
  /\ rLoadCalls' = rLoadCalls + 1
  /\ rParts' = <<>>
  /\ rParams' = [p \in {rig.parameters[k].id : k \in 1..Len(rig.parameters)} |->
                   LET k == CHOOSE k \in 1..Len(rig.parameters) :
                              /\ rig.parameters[k].id = p
                              /\ \A j \in (k + 1)..Len(rig.parameters) : rig.parameters[j].id # p
                   IN  rig.parameters[k].default]
  /\ rSelected' = "null"
  /\ rLoads' = Append(rLoads, [sorted |-> SortByZ(rig.parts), i |-> 1])
  /\ UNCHANGED rEvalOrder

LoadRigCall(rig) ==
  /\ rLoadCalls < MaxLoadCalls
  /\ LoadRigBegin(rig)

\* the handlers setupPartSelection registers: one on every mesh in the Map
setupPartSelection(parts) ==
  [k \in 1..Len(parts) |-> [parts[k] EXCEPT !.listening = TRUE]]

RemoveAt(seq, n) == SubSeq(seq, 1, n - 1) \o SubSeq(seq, n + 1, Len(seq))

\* a suspended loadRig call resumes (the texture loaded, or the fallback
\* was taken): it stores the PartState of its current part, and either
\* suspends at the next part's texture or finishes with setupPartSelection
LoadRigResume(n) ==
  /\ n \in 1..Len(rLoads)
  /\ LET call  == rLoads[n]
         added == MapSet(rParts, NewPartState(call.sorted[call.i]))
     IN  IF call.i < Len(call.sorted)
         THEN /\ rParts' = added
              /\ rLoads' = [rLoads EXCEPT ![n].i = call.i + 1]
         ELSE /\ rParts' = setupPartSelection(added)
              /\ rLoads' = RemoveAt(rLoads, n)
  /\ UNCHANGED <<rParams, rSelected, rLoadCalls, rEvalOrder>>

\* setParameter(paramId, value)
SetParameter(paramId, value) ==
  /\ rParams' = ParamSet(rParams, paramId, value)
  /\ rParts' = applyDeformations(rParts, rParams')
  /\ rEvalOrder' = EvalOrderOf(rParts)
  /\ UNCHANGED <<rSelected, rLoads, rLoadCalls>>

RECURSIVE SetEntries(_, _, _)
SetEntries(paramValues, entries, i) ==
  IF i > Len(entries) THEN paramValues
  ELSE SetEntries(ParamSet(paramValues, entries[i][1], entries[i][2]), entries, i + 1)

\* setAllParameters(params), params given as its Object.entries
SetAllParameters(entries) ==
  /\ rParams' = SetEntries(rParams, entries, 1)
  /\ rParts' = applyDeformations(rParts, rParams')
  /\ rEvalOrder' = EvalOrderOf(rParts)
  /\ UNCHANGED <<rSelected, rLoads, rLoadCalls>>

\* a pointerdown on a part's mesh: selectPart(partId)
SelectPart(partId) ==
  /\ \E k \in 1..Len(rParts) : rParts[k].id = partId /\ rParts[k].listening
  /\ rSelected' = partId
  /\ UNCHANGED <<rParts, rParams, rLoads, rLoadCalls, rEvalOrder>>

RenderVals == {R(90 * k) : k \in 0..MaxTurns}

BatchEntries ==
  {<<>>} \cup {<< <<"head_angle_x", v>>, <<"hair_back_physics", v>> >> : v \in RenderVals}

LoadRigCallAny == \E rig \in Rigs : LoadRigCall(rig)

LoadRigResumeAny == \E n \in 1..Len(rLoads) : LoadRigResume(n)

SetParameterAny == \E paramId \in ParamIds, value \in RenderVals : SetParameter(paramId, value)

SetAllParametersAny == \E entries \in BatchEntries : SetAllParameters(entries)

SelectPartAny == \E partId \in PartIds : SelectPart(partId)

(***************************************************************************)
(* ui/viewport.ts : the rigLoaded handler calls renderer.loadRig for every *)
(* event, and nothing makes a call wait for the one before it              *)
(***************************************************************************)
ReloadIdle == rRequested = <<>>

\* the rigs of the renderer, and a rig of the face alone that declares the
\* two parameters of the face, head_angle_y with another default
ReloadRigs ==
  Rigs \cup {[parts |-> <<FacePart(1)>>,
              parameters |-> << [id |-> "head_angle_x", default |-> R(0)],
                                [id |-> "head_angle_y", default |-> R(0)] >>]}

\* a rigLoaded event: the handler calls loadRig, which runs up to its first `await`
RigLoaded(rig) ==
  /\ rLoadCalls < MaxReloads
  /\ LoadRigBegin(rig)
  /\ rRequested' = Append(rRequested, rig)

RigLoadedAny == \E rig \in ReloadRigs : RigLoaded(rig)

\* a texture load of one of the calls in flight settles
TextureSettled == LoadRigResumeAny /\ UNCHANGED rRequested


(***************************************************************************)
(* engine/physics.ts : numbers                                             *)
(*                                                                         *)
(* The chain relaxes through square roots and quotients, so its Float64    *)
(* values are modelled in fixed point: the integer n stands for n / FxOne, *)
(* and every product, quotient and square root rounds down to that grid.   *)
(***************************************************************************)
Fx(n) == n * FxOne

FxMul(a, b) == (a * b) \div FxOne

FxDiv(a, b) == (a * FxOne) \div b

\* the largest r in lo..hi with r * r <= n
RECURSIVE SqrtBetween(_, _, _)
SqrtBetween(n, lo, hi) ==
  IF lo = hi THEN lo
  ELSE LET mid == (lo + hi + 1) \div 2
       IN  IF mid * mid <= n THEN SqrtBetween(n, mid, hi) ELSE SqrtBetween(n, lo, mid - 1)

\* Math.sqrt(dx * dx + dy * dy)
FxHypot(dx, dy) == SqrtBetween(dx * dx + dy * dy, 0, Abs(dx) + Abs(dy))

\* n / d for d > 0, rounded away from zero: a quotient that is not 0 stays
\* on its side of 0, as it does in a double
DivOut(n, d) == IF n >= 0 THEN (n + d - 1) \div d ELSE n \div d

\* Math.atan2(y, x) * (180 / Math.PI): exact at the multiples of 45 degrees,
\* and between them the linear interpolant, which keeps sign and order
Atan2Deg(y, x) ==
  IF x = 0 /\ y = 0 THEN 0
  ELSE IF x > 0 /\ Abs(y) <= x THEN DivOut(45 * FxOne * y, x)
  ELSE IF y > 0 /\ Abs(x) <= y THEN Fx(90) - (45 * FxOne * x) \div y
  ELSE IF y < 0 /\ Abs(x) <= -y THEN -Fx(90) - (45 * FxOne * x) \div y
  ELSE IF y >= 0 THEN Fx(180) + (45 * FxOne * y) \div x
  ELSE -Fx(180) + (45 * FxOne * y) \div x

\* new Float64Array(n) filled with the values of f: a sequence
Float64Array(f) == f \o <<>>

(***************************************************************************)
(* engine/physics.ts : PhysicsChain                                        *)
(*                                                                         *)
(* A chain is [segments, segmentLength, damping, gravity, points,          *)
(* oldPoints] with the ghosts `updates` (update calls so far) and          *)
(* `lastAnchor` (the anchorPos of the last update call).                   *)
(***************************************************************************)
\* new PhysicsChain(anchor, length, segments, damping, gravity)
PhysicsChain_new(anchor, length, segments, damping, gravity) ==
  LET segmentLength == FxDiv(Fx(length), Fx(segments))
      line == Float64Array([k \in 1..(2 * (segments + 1)) |->
                IF k % 2 = 1 THEN Fx(anchor[1])
                ELSE Fx(anchor[2]) + ((k - 1) \div 2) * segmentLength])
  IN  [segments |-> segments, segmentLength |-> segmentLength, damping |-> damping,
       gravity |-> gravity, points |-> line, oldPoints |-> line,
       updates |-> 0, lastAnchor |-> anchor]

\* constrain(i, j) that moves the point facing point 0 by half the correction
constrainAnchorHalf(points, segmentLength, i, j) ==
  LET ix == 2 * i + 1
      iy == ix + 1
      jx == 2 * j + 1
      jy == jx + 1
      ddx == points[jx] - points[ix]
      ddy == points[jy] - points[iy]
      dist == FxHypot(ddx, ddy)
  IN  IF dist = 0 THEN points
      ELSE LET diff    == FxDiv(dist - segmentLength, dist)
               offsetX == FxMul(FxMul(ddx, FxOne \div 2), diff)
               offsetY == FxMul(FxMul(ddy, FxOne \div 2), diff)
           IN  IF i = 0
               THEN [points EXCEPT ![jx] = @ - offsetX, ![jy] = @ - offsetY]
               ELSE IF j = 0
               THEN [points EXCEPT ![ix] = @ + offsetX, ![iy] = @ + offsetY]
               ELSE [points EXCEPT ![ix] = @ + offsetX, ![iy] = @ + offsetY,
                                   ![jx] = @ - offsetX, ![jy] = @ - offsetY]

\* constrain(i, j) with both points moved whatever i and j are
constrainBothEnds(points, segmentLength, i, j) ==
  LET ix == 2 * i + 1
      iy == ix + 1
      jx == 2 * j + 1
      jy == jx + 1
      dx == points[jx] - points[ix]
      dy == points[jy] - points[iy]
      dist == FxHypot(dx, dy)
  IN  IF dist = 0 THEN points
      ELSE LET diff    == FxDiv(dist - segmentLength, dist)
               offsetX == FxMul(FxMul(dx, FxOne \div 2), diff)
               offsetY == FxMul(FxMul(dy, FxOne \div 2), diff)
           IN  [points EXCEPT ![ix] = @ + offsetX, ![iy] = @ + offsetY,
                              ![jx] = @ - offsetX, ![jy] = @ - offsetY]

\* constrain(i, j): the points array it leaves.  dist < 1e-10 is dist = 0 on
\* the grid.
constrain(points, segmentLength, i, j) ==
  LET ix == 2 * i + 1
      iy == ix + 1
      jx == 2 * j + 1
      jy == jx + 1
      dx == points[jx] - points[ix]
      dy == points[jy] - points[iy]
      dist == FxHypot(dx, dy)
  IN  IF dist = 0 THEN points
      ELSE LET diff    == FxDiv(dist - segmentLength, dist)
               offsetX == FxMul(FxMul(dx, FxOne \div 2), diff)
               offsetY == FxMul(FxMul(dy, FxOne \div 2), diff)
           IN  IF i = 0
               THEN [points EXCEPT ![jx] = @ - offsetX * 2, ![jy] = @ - offsetY * 2]
               ELSE IF j = 0
               THEN [points EXCEPT ![ix] = @ + offsetX * 2, ![iy] = @ + offsetY * 2]
               ELSE [points EXCEPT ![ix] = @ + offsetX, ![iy] = @ + offsetY,
                                   ![jx] = @ - offsetX, ![jy] = @ - offsetY]

\* the divisors of constrain(i, j) without the early return
constrainDivisorsUnguarded(points, segmentLength, i, j) ==
  {FxHypot(points[2 * j + 1] - points[2 * i + 1], points[2 * j + 2] - points[2 * i + 2])}

\* the numbers constrain(i, j) divides by: dist, in `(dist -
\* this.segmentLength) / dist`, which `if (dist < 1e-10) return` precedes
constrainDivisors(points, segmentLength, i, j) ==
  LET dist == FxHypot(points[2 * j + 1] - points[2 * i + 1],
                      points[2 * j + 2] - points[2 * i + 2])
  IN  IF dist = 0 THEN {} ELSE {dist}

\* the 5 relaxation iterations of update, from the n-th constrain call on
RECURSIVE ConstrainLoop(_, _, _, _)
ConstrainLoop(points, segmentLength, segments, n) ==
  IF n >= 5 * segments THEN points
  ELSE ConstrainLoop(constrain(points, segmentLength, n % segments, (n % segments) + 1),
                     segmentLength, segments, n + 1)

\* update(dt, anchorPos): the chain it leaves
PhysicsChain_update(chain, dt, anchorPos) ==
  LET count == chain.segments + 1
      dt2   == FxMul(dt, dt)
      moved == Float64Array([k \in 1..(2 * count) |->
                 IF k <= 2 THEN Fx(anchorPos[k])
                 ELSE chain.points[k]
                      + FxMul(chain.points[k] - chain.oldPoints[k], chain.damping)
                      + FxMul(chain.gravity[2 - (k % 2)], dt2)])
      old   == Float64Array([k \in 1..(2 * count) |->
                 IF k <= 2 THEN Fx(anchorPos[k]) ELSE chain.points[k]])
  IN  [chain EXCEPT !.points = ConstrainLoop(moved, chain.segmentLength, chain.segments, 0),
                    !.oldPoints = old,
                    !.updates = @ + 1,
                    !.lastAnchor = anchorPos]

\* Math.atan2(dy, dx): the arguments the other way round
getAngleSwapped(chain) ==
  LET lastIdx == chain.segments * 2
      ddx == chain.points[lastIdx + 1] - chain.points[1]
      ddy == chain.points[lastIdx + 2] - chain.points[2]
  IN  Atan2Deg(ddy, ddx)

\* getAngle()
getAngle(chain) ==
  LET lastIdx == chain.segments * 2
      dx == chain.points[lastIdx + 1] - chain.points[1]
      dy == chain.points[lastIdx + 2] - chain.points[2]
  IN  Atan2Deg(dx, dy)

(***************************************************************************)
(* engine/physics.ts : PhysicsEngine                                       *)
(***************************************************************************)
\* the default of the constructor's gravity parameter
DefaultGravity == <<Fx(0), Fx(200)>>

\* the loop of step, from chain i on: the chains and the Record it leaves
RECURSIVE StepLoopKeepFirst(_, _, _, _, _)
StepLoopKeepFirst(chains, i, dt, getAnchorPos, paramValues) ==
  IF i > Len(chains) THEN [chains |-> chains, paramValues |-> paramValues]
  ELSE LET updated == PhysicsChain_update(chains[i].chain, dt, getAnchorPos[chains[i].target])
       IN  StepLoopKeepFirst([chains EXCEPT ![i].chain = updated], i + 1, dt, getAnchorPos,
                             IF chains[i].paramBinding \in DOMAIN paramValues
                             THEN paramValues
                             ELSE ParamSet(paramValues, chains[i].paramBinding,
                                           getAngle(updated)))

\* the loop of step with `anchor` resolved one iteration late: a chain is
\* updated with the anchor of the chain processed before it
RECURSIVE StepLoopStaleAnchor(_, _, _, _, _)
StepLoopStaleAnchor(chains, i, dt, getAnchorPos, paramValues) ==
  IF i > Len(chains) THEN [chains |-> chains, paramValues |-> paramValues]
  ELSE LET anchor  == getAnchorPos[chains[IF i = 1 THEN 1 ELSE i - 1].target]
           updated == PhysicsChain_update(chains[i].chain, dt, anchor)
       IN  StepLoopStaleAnchor([chains EXCEPT ![i].chain = updated], i + 1, dt, getAnchorPos,
                               ParamSet(paramValues, chains[i].paramBinding,
                                        getAngle(updated)))

RECURSIVE StepLoop(_, _, _, _, _)
StepLoop(chains, i, dt, getAnchorPos, paramValues) ==
  IF i > Len(chains) THEN [chains |-> chains, paramValues |-> paramValues]
  ELSE LET updated == PhysicsChain_update(chains[i].chain, dt, getAnchorPos[chains[i].target])
       IN  StepLoop([chains EXCEPT ![i].chain = updated], i + 1, dt, getAnchorPos,
                    ParamSet(paramValues, chains[i].paramBinding, getAngle(updated)))

NoStep == [type |-> "none"]

PhysicsIdle ==
  /\ pChains = <<>>
  /\ pResult = EmptyMap
  /\ pSteps = 0
  /\ pPrev = <<>>
  /\ pLast = NoStep

\* addChain(config, anchorPos, segments)
AddChain(config, anchorPos, segments) ==
  /\ Len(pChains) < MaxChains
  /\ pChains' = Append(pChains,
                  [chain |-> PhysicsChain_new(anchorPos, config.length, segments,
                                              (config.damping[1] * FxOne) \div config.damping[2],
                                              DefaultGravity),
                   paramBinding |-> config.paramBinding,
                   target |-> config.target])
  /\ UNCHANGED <<pResult, pSteps, pPrev, pLast>>

\* step(dt, getAnchorPos)
Step(dt, getAnchorPos) ==
  /\ pSteps < MaxSteps
  /\ pSteps' = pSteps + 1
  /\ LET res == StepLoop(pChains, 1, dt, getAnchorPos, EmptyMap)
     IN  /\ pChains' = res.chains
         /\ pResult' = res.paramValues
  /\ pPrev' = pChains
  /\ pLast' = [type |-> "step", dt |-> dt, getAnchorPos |-> getAnchorPos]

\* the Physics entries of the rigs: two chains may name one parameter
PhysicsConfigs ==
  {[target |-> "hair_back", type |-> "pendulum", length |-> 4, damping |-> <<9, 10>>,
    paramBinding |-> "hair_back_physics"],
   [target |-> "hair_front", type |-> "pendulum", length |-> 4, damping |-> <<9, 10>>,
    paramBinding |-> "hair_front_physics"],
   [target |-> "hair_side", type |-> "pendulum", length |-> 6, damping |-> <<1, 2>>,
    paramBinding |-> "hair_back_physics"]}

\* the segments argument of addChain, by target
SegmentsOf(target) == IF target = "hair_back" THEN 2 ELSE 1

\* the anchor resolvers: every part at rest, or the head moved sideways
AnchorResolvers ==
  {[t \in {"hair_back", "hair_front", "hair_side"} |-> <<0, 0>>],
   [t \in {"hair_back", "hair_front", "hair_side"} |->
      IF t = "hair_back" THEN <<8, 0>> ELSE IF t = "hair_front" THEN <<0, 8>> ELSE <<0, 0>>]}

\* dt: 0 and a quarter of a second
StepTimes == {0, FxOne \div 4}

AddChainAny == \E config \in PhysicsConfigs : AddChain(config, <<0, 0>>, SegmentsOf(config.target))

StepAny == \E dt \in StepTimes, getAnchorPos \in AnchorResolvers : Step(dt, getAnchorPos)

(***************************************************************************)
(* ai/meshGen.ts : extractContour                                          *)
(*                                                                         *)
(* A mask is [width, height, alpha]: alpha is the alpha channel of the     *)
(* ImageData in row-major order (alpha[y * width + x + 1]).                *)
(***************************************************************************)
ALPHA_THRESHOLD == 128

\* alpha values on either side of the threshold
Alphas == {ALPHA_THRESHOLD - 1, ALPHA_THRESHOLD}

Masks ==
  UNION {{[width |-> w, height |-> h, alpha |-> a] : a \in [1..(w * h) -> Alphas]}
         : w \in 1..MaxMaskWidth, h \in 1..MaxMaskHeight}

\* the helper isSolid: out of bounds reads as empty
isSolid(mask, x, y) ==
  IF x < 0 \/ x >= mask.width \/ y < 0 \/ y >= mask.height
  THEN FALSE
  ELSE mask.alpha[y * mask.width + x + 1] >= ALPHA_THRESHOLD

\* the pixels the `outer` scan accepts: solid with an empty 4-neighbour
BoundaryPixels(mask) ==
  {p \in (0..(mask.width - 1)) \X (0..(mask.height - 1)) :
     /\ isSolid(mask, p[1], p[2])
     /\ \/ ~isSolid(mask, p[1] - 1, p[2])
        \/ ~isSolid(mask, p[1] + 1, p[2])
        \/ ~isSolid(mask, p[1], p[2] - 1)
        \/ ~isSolid(mask, p[1], p[2] + 1)}

NoStart == <<-1, -1>>

\* <<startX, startY>>: the first boundary pixel in row-major order
FindStart(mask) ==
  LET B == BoundaryPixels(mask)
  IN  IF B = {} THEN NoStart
      ELSE CHOOSE p \in B :
             \A q \in B : p[2] < q[2] \/ (p[2] = q[2] /\ p[1] <= q[1])

\* direction vectors, clockwise from right (0-based direction nd is entry nd + 1)
dx == <<1, 1, 0, -1, -1, -1, 0, 1>>

dy == <<0, 1, 1, 1, 0, -1, -1, -1>>

maxStepsOf(mask) == mask.width * mask.height * 2

\* `steps < maxSteps` alone
TraceOnUntilBudget(pos, start, steps, maxSteps) == steps < maxSteps

\* the condition of the do-while: (cx !== startX || cy !== startY) && steps < maxSteps
TraceOn(pos, start, steps, maxSteps) == pos # start /\ steps < maxSteps

\* the state of a trace before its first iteration
TraceStart(start) ==
  [pc |-> "loop", start |-> start, pos |-> start, dir |-> 7, steps |-> 0, contour |-> <<>>]

\* one iteration of the do-while body, then its condition
TraceIter(mask, t) ==
  LET start     == t.start
      seen      == \E k \in 1..Len(t.contour) : t.contour[k] = t.pos
      contour   == IF seen THEN t.contour ELSE Append(t.contour, t.pos)
      searchDir == (t.dir + 5) % 8
      hits      == {i \in 0..7 :
                      LET nd == (searchDir + i) % 8
                      IN  isSolid(mask, t.pos[1] + dx[nd + 1], t.pos[2] + dy[nd + 1])}
  IN  IF hits = {}
      THEN [t EXCEPT !.pc = "returned", !.contour = contour]
      ELSE LET i     == CHOOSE h \in hits : \A g \in hits : h <= g
               nd    == (searchDir + i) % 8
               pos   == <<t.pos[1] + dx[nd + 1], t.pos[2] + dy[nd + 1]>>
               steps == t.steps + 1
           IN  [pc      |-> IF TraceOn(pos, start, steps, maxStepsOf(mask))
                            THEN "loop" ELSE "returned",
                start   |-> start,
                pos     |-> pos,
                dir     |-> nd,
                steps   |-> steps,
                contour |-> contour]

RECURSIVE TraceRun(_, _)
TraceRun(mask, t) == IF t.pc = "loop" THEN TraceRun(mask, TraceIter(mask, t)) ELSE t

\* extractContour(mask)
extractContour(mask) ==
  IF FindStart(mask) = NoStart THEN <<>>
  ELSE TraceRun(mask, TraceStart(FindStart(mask))).contour

\* one call of extractContour, one loop iteration per step (the function
\* keeps nothing between calls, so a run of the model makes one call)
ContourIdle ==
  /\ eMask = [width |-> 0, height |-> 0, alpha |-> <<>>]
  /\ eTrace = [pc |-> "idle", start |-> NoStart, pos |-> NoStart, dir |-> 7, steps |-> 0,
               contour |-> <<>>]

ExtractContourCall(mask) ==
  /\ eTrace.pc = "idle"
  /\ eMask' = mask
  /\ eTrace' = IF FindStart(mask) = NoStart
               THEN [pc |-> "returned", start |-> NoStart, pos |-> NoStart, dir |-> 7,
                     steps |-> 0, contour |-> <<>>]
               ELSE TraceStart(FindStart(mask))

ExtractContourIter ==
  /\ eTrace.pc = "loop"
  /\ eTrace' = TraceIter(eMask, eTrace)
  /\ UNCHANGED eMask

ExtractContourCallAny == eTrace.pc = "idle" /\ \E mask \in Masks : ExtractContourCall(mask)

(***************************************************************************)
(* ai/meshGen.ts : simplifyContour                                         *)
(*                                                                         *)
(* Points are <<x, y>> with integer coordinates.  Distances are kept as    *)
(* their squares, which are exact rationals; Math.sqrt is monotone, so     *)
(* every comparison of two distances is the comparison of their squares.   *)
(***************************************************************************)
\* the square of pointToSegmentDist(p, a, b).  With dot = (p - a) . (b - a),
\* the clamp of t = dot / lenSq to [0, 1] projects p onto a (dot <= 0), onto
\* b (dot >= lenSq), or onto the line, where the squared distance is
\* cross^2 / lenSq with cross = (p - a) x (b - a).
pointToSegmentDistSq(p, a, b) ==
  LET ddx   == b[1] - a[1]
      ddy   == b[2] - a[2]
      lenSq == ddx * ddx + ddy * ddy
      dot   == (p[1] - a[1]) * ddx + (p[2] - a[2]) * ddy
      cross == (p[1] - a[1]) * ddy - (p[2] - a[2]) * ddx
  IN  IF lenSq = 0 \/ dot <= 0
      THEN R((p[1] - a[1]) * (p[1] - a[1]) + (p[2] - a[2]) * (p[2] - a[2]))
      ELSE IF dot >= lenSq
      THEN R((p[1] - b[1]) * (p[1] - b[1]) + (p[2] - b[2]) * (p[2] - b[2]))
      ELSE Frac(cross * cross, lenSq)

\* `maxDist > epsilon`, for maxDist >= 0 held as its square
DistExceeds(maxDistSq, epsilon) ==
  IF IsNaN(epsilon) THEN FALSE
  ELSE IF RLt(epsilon, R(0)) THEN TRUE
  ELSE RLt(RMul(epsilon, epsilon), maxDistSq)

\* the scan `for (let i = 1; i < contour.length - 1; i++)`: <<maxDist squared, maxIdx>>
RECURSIVE FarthestFrom(_, _, _, _)
FarthestFrom(contour, i, maxDistSq, maxIdx) ==
  IF i >= Len(contour) - 1 THEN <<maxDistSq, maxIdx>>
  ELSE LET d == pointToSegmentDistSq(contour[i + 1], contour[1], contour[Len(contour)])
       IN  IF RLt(maxDistSq, d)
           THEN FarthestFrom(contour, i + 1, d, i)
           ELSE FarthestFrom(contour, i + 1, maxDistSq, maxIdx)

\* what a call that never stops recursing ends in: a RangeError
\* (Maximum call stack size exceeded) thrown to the caller
RangeError == [type |-> "throw", name |-> "RangeError"]

\* the outcome of a call that returned value
Returned(value) == [type |-> "return", value |-> value]

\* left.slice(0, -1).concat(right)
JoinHalves(left, right) == SubSeq(left, 1, Len(left) - 1) \o right

\* the outcome of simplifyContour(contour, epsilon).  With maxIdx = 0 the right half
\* contour.slice(0) is the contour itself, and the call recurses on its own
\* arguments without end.
RECURSIVE simplifyContour(_, _)
simplifyContour(contour, epsilon) ==
  IF Len(contour) <= 2 THEN Returned(contour)
  ELSE LET far       == FarthestFrom(contour, 1, R(0), 0)
           maxDistSq == far[1]
           maxIdx    == far[2]
       IN  IF DistExceeds(maxDistSq, epsilon)
           THEN IF maxIdx = 0 THEN RangeError
                ELSE LET left  == simplifyContour(SubSeq(contour, 1, maxIdx + 1), epsilon)
                         right == simplifyContour(SubSeq(contour, maxIdx + 1, Len(contour)),
                                                  epsilon)
                     IN  IF left = RangeError \/ right = RangeError THEN RangeError
                         ELSE Returned(JoinHalves(left.value, right.value))
           ELSE Returned(<<contour[1], contour[Len(contour)]>>)

(***************************************************************************)
(* One call of a function that keeps no state: fCall is the call made,     *)
(* fRet what it returned or threw.                                         *)
(***************************************************************************)
CallIdle ==
  /\ fCall = NoCall
  /\ fRet = NoCall

ContourPoints == (0..MaxContourCoord) \X (0..1)

Contours == UNION {[1..n -> ContourPoints] : n \in 1..MaxContourLen}

\* tolerances: negative, zero, the default of generateMesh, and NaN
Epsilons == {R(-1), R(0), Frac(1, 2), R(2), NaN}

CallSimplifyContour(contour, epsilon) ==
  /\ fCall = NoCall
  /\ fCall' = [fn |-> "simplifyContour", contour |-> contour, epsilon |-> epsilon]
  /\ fRet' = simplifyContour(contour, epsilon)

CallSimplifyContourAny ==
  /\ fCall = NoCall
  /\ \E contour \in Contours, epsilon \in Epsilons : CallSimplifyContour(contour, epsilon)

(***************************************************************************)
(* ai/meshGen.ts : computeUVs                                              *)
(*                                                                         *)
(* A vertex is <<vx, vy>> and a UV <<u, v>>, all four rationals.           *)
(***************************************************************************)
\* no clamp at all
Unclamped(v) == v

\* Math.max(0, Math.min(1, v))
Clamp01(v) == RMax(R(0), RMin(R(1), v))

\* computeUVs(vertices, textureBbox)
computeUVs(vertices, textureBbox) ==
  [k \in 1..Len(vertices) |->
     <<Clamp01(RDiv(RSub(vertices[k][1], R(textureBbox.x)), R(textureBbox.w))),
       Clamp01(RDiv(RSub(vertices[k][2], R(textureBbox.y)), R(textureBbox.h)))>>] \o <<>>

\* texture boxes with w, h > 0
UVBoxes ==
  {[x |-> 1, y |-> 1, w |-> w, h |-> h] : w \in 1..MaxBoxSize, h \in 1..MaxBoxSize}

\* coordinates from left of every box to right of every box, one of them not an integer
UVCoords == {R(k) : k \in 0..(MaxBoxSize + 2)} \cup {Frac(3, 2)}

UVVertexLists == UNION {[1..n -> UVCoords \X UVCoords] : n \in 0..2}

CallComputeUVs(vertices, textureBbox) ==
  /\ fCall = NoCall
  /\ fCall' = [fn |-> "computeUVs", vertices |-> vertices, textureBbox |-> textureBbox]
  /\ fRet' = Returned(computeUVs(vertices, textureBbox))

CallComputeUVsAny ==
  /\ fCall = NoCall
  /\ \E vertices \in UVVertexLists, textureBbox \in UVBoxes : CallComputeUVs(vertices, textureBbox)

(***************************************************************************)
(* ai/meshGen.ts : triangulate, validateMesh and generateMesh              *)
(*                                                                         *)
(* A mesh is [vertices, uvs, triangles]: vertices and uvs are sequences of *)
(* pairs of rationals, triangles a sequence of triples of 0-based indices. *)
(* Two parts of the pipeline are inputs of the model instead of being      *)
(* computed: the points sampleInterior yields for a mask and a density,    *)
(* and the flat index array Delaunator yields for a point list.            *)
(***************************************************************************)
MIN_VERTICES == 50

MAX_VERTICES == 500

DEFAULT_DENSITY == 8

DEFAULT_EPSILON == 2

NoMesh == [type |-> "null"]

\* a list of integer points as a list of numbers
AsNumbers(points) == [k \in 1..Len(points) |-> <<R(points[k][1]), R(points[k][2])>>] \o <<>>

\* the raw triangles from index i on (0-based, i += 3) that pass the centroid test
RECURSIVE KeepInside(_, _, _, _)
KeepInside(allPts, mask, rawTris, i) ==
  IF i >= Len(rawTris) THEN <<>>
  ELSE LET a  == rawTris[i + 1]
           b  == rawTris[i + 2]
           c  == rawTris[i + 3]
           cx == RDiv(RAdd(RAdd(allPts[a + 1][1], allPts[b + 1][1]), allPts[c + 1][1]), R(3))
           cy == RDiv(RAdd(RAdd(allPts[a + 1][2], allPts[b + 1][2]), allPts[c + 1][2]), R(3))
           ix == RFloor(cx)[1]
           iy == RFloor(cy)[1]
           rest == KeepInside(allPts, mask, rawTris, i + 3)
       IN  IF isSolid(mask, ix, iy) THEN <<(<<a, b, c>>)>> \o rest ELSE rest

\* triangulate that returns the interior points alone as the vertices
triangulateInteriorOnly(boundaryPts, interiorPts, mask, rawTris) ==
  [vertices  |-> interiorPts,
   triangles |-> KeepInside(boundaryPts \o interiorPts, mask, rawTris, 0)]

\* triangulate(boundaryPts, interiorPts, mask), where rawTris is
\* delaunay.triangles for allPts (not consulted for fewer than 3 points)
triangulate(boundaryPts, interiorPts, mask, rawTris) ==
  LET allPts == boundaryPts \o interiorPts
  IN  IF Len(allPts) < 3
      THEN [vertices |-> allPts, triangles |-> <<>>]
      ELSE [vertices |-> allPts, triangles |-> KeepInside(allPts, mask, rawTris, 0)]

\* the square of the length of the edge from a to b
EdgeSq(a, b) ==
  RAdd(RMul(RSub(b[1], a[1]), RSub(b[1], a[1])), RMul(RSub(b[2], a[2]), RSub(b[2], a[2])))

MAX_ASPECT_RATIO == 10

\* the checks validateMesh makes on triangle tri: the bounds check, then
\* shortest < 1e-6 (for the coordinates of the model: a zero-length edge)
\* and longest / shortest > MAX_ASPECT_RATIO, both on the squares
TriangleErrors(vertices, tri) ==
  IF tri[1] >= Len(vertices) \/ tri[2] >= Len(vertices) \/ tri[3] >= Len(vertices)
  THEN {"index out of bounds"}
  ELSE LET ab == EdgeSq(vertices[tri[1] + 1], vertices[tri[2] + 1])
           bc == EdgeSq(vertices[tri[2] + 1], vertices[tri[3] + 1])
           ca == EdgeSq(vertices[tri[3] + 1], vertices[tri[1] + 1])
           longest  == RMax(ab, RMax(bc, ca))
           shortest == RMin(ab, RMin(bc, ca))
       IN  IF shortest = R(0) THEN {"degenerate triangle"}
           ELSE IF RLt(RMul(R(MAX_ASPECT_RATIO * MAX_ASPECT_RATIO), shortest), longest)
                THEN {"degenerate triangle"}
                ELSE {}

\* u < -0.01 || u > 1.01 || v < -0.01 || v > 1.01
UVOutOfRange(uv) ==
  \/ RLt(uv[1], Frac(-1, 100)) \/ RLt(Frac(101, 100), uv[1])
  \/ RLt(uv[2], Frac(-1, 100)) \/ RLt(Frac(101, 100), uv[2])

\* the error kinds of validateMesh other than the two vertex-count ones
OtherErrors == {"index out of bounds", "degenerate triangle", "UV outside"}

\* validation.errors of validateMesh(mesh), by kind
validateMesh(mesh) ==
  (IF Len(mesh.vertices) < MIN_VERTICES THEN {"Too few"} ELSE {})
    \cup (IF Len(mesh.vertices) > MAX_VERTICES THEN {"Too many"} ELSE {})
    \cup UNION {TriangleErrors(mesh.vertices, mesh.triangles[i]) : i \in 1..Len(mesh.triangles)}
    \cup (IF \E k \in 1..Len(mesh.uvs) : UVOutOfRange(mesh.uvs[k]) THEN {"UV outside"} ELSE {})

\* every failed validation is taken as one about the vertex count
AnyErrorAdjusts(errors) == errors # {}

\* `tooFew || tooMany`: the branches of the loop that adjust the density
DensityAdjusts(errors) == "Too few" \in errors \/ "Too many" \in errors

\* the adjustment without `Math.max(2, ...)`
AdjustDensityNoFloor(density, errors) ==
  IF "Too few" \in errors THEN RMul(density, Frac(3, 5)) ELSE RMul(density, Frac(3, 2))

\* the density after an attempt that reported too few or too many vertices:
\* `Math.max(2, density * 0.6)` if tooFew, else `density * 1.5`
AdjustDensity(density, errors) ==
  IF "Too few" \in errors THEN RMax(R(2), RMul(density, Frac(3, 5)))
  ELSE RMul(density, Frac(3, 2))

\* `attempt < 4`
MoreAttemptsOffByOne(attempt) == attempt < 4

\* the loop condition `attempt < 3`
MoreAttempts(attempt) == attempt < 3

\* `contour.length < 2`
ContourTooShortOffByOne(contour) == Len(contour) < 2

\* the test `contour.length < 3`
ContourTooShort(contour) == Len(contour) < 3

\* new Error('Mask contains no traceable contour (fewer than 3 boundary points)')
NoContourError ==
  [type |-> "throw", name |-> "Error",
   message |-> "Mask contains no traceable contour (fewer than 3 boundary points)"]

MeshIdle ==
  /\ mPc = "idle"
  /\ mCall = NoCall
  /\ mContour = <<>>
  /\ mSimplified = <<>>
  /\ mAttempt = 0
  /\ mDensity = R(0)
  /\ mMesh = NoMesh
  /\ mErrors = {}
  /\ mRuns = 0
  /\ mOutcome = NoCall

\* generateMesh(mask, textureBbox) up to the loop (the function keeps
\* nothing between calls, so a run of the model makes one call)
GenerateMeshCall(mask, textureBbox) ==
  LET contour == extractContour(mask)
  IN  /\ mPc = "idle"
      /\ mCall' = [mask |-> mask, textureBbox |-> textureBbox]
      /\ mContour' = contour
      /\ mAttempt' = 0
      /\ mMesh' = NoMesh
      /\ mErrors' = {}
      /\ mRuns' = 0
      /\ IF ContourTooShort(contour)
         THEN /\ mPc' = "thrown"
              /\ mOutcome' = NoContourError
              /\ mSimplified' = <<>>
              /\ mDensity' = R(0)
         ELSE /\ mPc' = "loop"
              /\ mOutcome' = NoCall
              /\ mSimplified' = simplifyContour(contour, R(DEFAULT_EPSILON)).value
              /\ mDensity' = R(DEFAULT_DENSITY)

\* one iteration of the loop: sampleInterior yields `interior`, Delaunator
\* yields rawTris; the call returns the mesh when it is valid, when the
\* errors are not about the vertex count, or when the loop condition fails
\* after the increment.  What it returns is the mesh alone.
GenerateMeshAttempt(interior, rawTris) ==
  /\ mPc = "loop"
  /\ MoreAttempts(mAttempt)
  /\ LET tri     == triangulate(AsNumbers(mSimplified), interior, mCall.mask, rawTris)
         uvs     == computeUVs(tri.vertices, mCall.textureBbox)
         mesh    == [vertices |-> tri.vertices, uvs |-> uvs, triangles |-> tri.triangles]
         errors  == validateMesh(mesh)
         tooFew  == "Too few" \in errors
         tooMany == "Too many" \in errors
     IN  /\ mRuns' = mRuns + 1
         /\ mMesh' = mesh
         /\ mErrors' = errors
         /\ IF errors = {}
            THEN /\ mPc' = "returned"
                 /\ mOutcome' = Returned(mesh)
                 /\ UNCHANGED <<mAttempt, mDensity>>
            ELSE IF DensityAdjusts(errors)
            THEN /\ mDensity' = AdjustDensity(mDensity, errors)
                 /\ mAttempt' = mAttempt + 1
                 /\ IF MoreAttempts(mAttempt + 1)
                    THEN mPc' = "loop" /\ mOutcome' = NoCall
                    ELSE mPc' = "returned" /\ mOutcome' = Returned(mesh)
            ELSE /\ mPc' = "returned"
                 /\ mOutcome' = Returned(mesh)
                 /\ UNCHANGED <<mAttempt, mDensity>>
  /\ UNCHANGED <<mCall, mContour, mSimplified>>

\* a mask of w x h pixels whose solid pixels are those of `solid`
MaskOf(w, h, solid) ==
  [width |-> w, height |-> h,
   alpha |-> [i \in 1..(w * h) |->
                IF <<(i - 1) % w, (i - 1) \div w>> \in solid THEN 255 ELSE 0] \o <<>>]

BigWidth == 32

BigHeight == 16

\* a transparent mask, an isolated pixel, a two-pixel mask, an L of three
\* pixels, and a filled rectangle with room for MAX_VERTICES + 1 vertices
MeshMasks ==
  {MaskOf(2, 2, {}),
   MaskOf(2, 2, {<<0, 0>>}),
   MaskOf(2, 2, {<<0, 0>>, <<1, 0>>}),
   MaskOf(2, 2, {<<0, 0>>, <<1, 0>>, <<0, 1>>}),
   MaskOf(BigWidth, BigHeight, (0..(BigWidth - 1)) \X (0..(BigHeight - 1)))}

\* the box of the big mask, and a box smaller than it
MeshBoxes ==
  {[x |-> 0, y |-> 0, w |-> BigWidth, h |-> BigHeight], [x |-> 4, y |-> 4, w |-> 8, h |-> 8]}

\* the vertex counts around the two limits of validateMesh
VertexCounts == {MIN_VERTICES - 1, MIN_VERTICES, MAX_VERTICES, MAX_VERTICES + 1}

\* n interior points: the first n pixels of the mask in row-major order
InteriorPoints(mask, n) ==
  [k \in 1..n |-> <<R((k - 1) % mask.width), R((k - 1) \div mask.width)>>] \o <<>>

\* what sampleInterior may yield: for a mask too small to hold MIN_VERTICES
\* points, at most one point; otherwise enough points to bring the vertex
\* count to one of VertexCounts
Interiors(mask, boundaryPts) ==
  IF mask.width * mask.height < MIN_VERTICES
  THEN {InteriorPoints(mask, n) : n \in 0..1}
  ELSE {InteriorPoints(mask, n - Len(boundaryPts)) : n \in VertexCounts}

\* what Delaunator may yield for n >= 3 points: a flat array of indices
\* into the points, three per triangle
DelaunatorOutputs(n) ==
  IF n < 3 THEN {<<>>}
  ELSE {<<>>, <<0, 1, 2>>, <<0, 1, n - 1, 2, 1, 0>>, <<0, n - 2, n - 1>>}

GenerateMeshCallAny ==
  /\ mPc = "idle"
  /\ \E mask \in MeshMasks, textureBbox \in MeshBoxes : GenerateMeshCall(mask, textureBbox)

GenerateMeshAttemptAny ==
  /\ mPc = "loop"
  /\ \E interior \in Interiors(mCall.mask, mSimplified) :
       \E rawTris \in DelaunatorOutputs(Len(mSimplified) + Len(interior)) :
         GenerateMeshAttempt(interior, rawTris)

(***************************************************************************)
(* ai/meshGen.ts : sampleInterior                                          *)
(*                                                                         *)
(* The numbers rand() yields are an input of the model: the sequence       *)
(* `rands` of the numerators r of the values r / 2, two per candidate.     *)
(* For a density that is a multiple of 4 every candidate then has integer  *)
(* coordinates.  cellSize is density / Math.SQRT2, so the cell index       *)
(* Math.floor(x / cellSize) is the largest g with g * g * density *        *)
(* density <= 2 * x * x.                                                   *)
(***************************************************************************)
\* Math.max(5, Math.round(Math.min(width, height) * 0.05))
boundaryWidth(mask) ==
  LET m == IF mask.width < mask.height THEN mask.width ELSE mask.height
      r == (m * 5 + 50) \div 100
  IN  IF r > 5 THEN r ELSE 5

\* a solid pixel the fallback floods from: one on the edge of the mask or
\* with a 4-neighbour that is not solid
AdjacentToBoundary(mask, x, y) ==
  /\ isSolid(mask, x, y)
  /\ \/ x = 0 \/ x = mask.width - 1 \/ y = 0 \/ y = mask.height - 1
     \/ ~isSolid(mask, x - 1, y) \/ ~isSolid(mask, x + 1, y)
     \/ ~isSolid(mask, x, y - 1) \/ ~isSolid(mask, x, y + 1)

\* nearBoundary[y * width + x] for a pixel of the mask
nearBoundary(mask, contourPts, x, y) ==
  LET bw == boundaryWidth(mask)
      Within(cx, cy) == (x - cx) * (x - cx) + (y - cy) * (y - cy) <= bw * bw
  IN  IF Len(contourPts) > 0
      THEN \E k \in 1..Len(contourPts) : Within(contourPts[k][1], contourPts[k][2])
      ELSE \E cx \in 0..(mask.width - 1), cy \in 0..(mask.height - 1) :
             AdjacentToBoundary(mask, cx, cy) /\ Within(cx, cy)

\* Math.floor(x / cellSize) for x >= 0
CellOf(x, density) ==
  CHOOSE g \in 0..x : /\ g * g * density * density <= 2 * x * x
                      /\ (g + 1) * (g + 1) * density * density > 2 * x * x

\* Math.ceil(width / cellSize)
GridSize(width, density) ==
  CHOOSE g \in 0..(2 * width) : /\ g * g * density * density >= 2 * width * width
                                /\ g = 0 \/ (g - 1) * (g - 1) * density * density
                                               < 2 * width * width

\* minDist * minDist of addPoint(x, y), times 4
MinDistSq4(mask, density, contourPts, x, y) ==
  IF nearBoundary(mask, contourPts, x, y) THEN density * density ELSE 4 * density * density

\* addPoint(x, y): points and grid after the call.  grid[nj * gridW + ni]
\* is grid[<<ni, nj>>]: the index of one point of the cell, or -1
addPoint(mask, density, contourPts, st, x, y) ==
  LET gi == CellOf(x, density)
      gj == CellOf(y, density)
      gridW == GridSize(mask.width, density)
      gridH == GridSize(mask.height, density)
      conflict ==
        \E di \in -2..2, dj \in -2..2 :
          LET ni == gi + di
              nj == gj + dj
          IN  /\ ni >= 0 /\ ni < gridW /\ nj >= 0 /\ nj < gridH
              /\ st.grid[<<ni, nj>>] # -1
              /\ LET pt  == st.points[st.grid[<<ni, nj>>] + 1]
                     ddx == x - pt[1]
                     ddy == y - pt[2]
                 IN  4 * (ddx * ddx + ddy * ddy) < MinDistSq4(mask, density, contourPts, x, y)
  IN  IF conflict THEN st
      ELSE [points |-> Append(st.points, <<x, y>>),
            grid   |-> [st.grid EXCEPT ![<<gi, gj>>] = Len(st.points)]]

\* the candidate loop from candidate c on (row-major, `step` apart)
RECURSIVE SampleLoop(_, _, _, _, _, _)
SampleLoop(mask, density, contourPts, rands, c, st) ==
  LET step == density \div 2
      nx   == (mask.width + step - 1) \div step
      ny   == (mask.height + step - 1) \div step
  IN  IF c >= nx * ny THEN st.points
      ELSE LET x  == (c % nx) * step
               y  == (c \div nx) * step
               jx == x + ((rands[2 * c + 1] - 1) * step) \div 2
               jy == y + ((rands[2 * c + 2] - 1) * step) \div 2
           IN  IF jx < 0 \/ jx >= mask.width \/ jy < 0 \/ jy >= mask.height
               THEN SampleLoop(mask, density, contourPts, rands, c + 1, st)
               ELSE IF ~isSolid(mask, jx, jy)
               THEN SampleLoop(mask, density, contourPts, rands, c + 1, st)
               ELSE SampleLoop(mask, density, contourPts, rands, c + 1,
                               addPoint(mask, density, contourPts, st, jx, jy))

\* sampleInterior(mask, density, contourPts)
sampleInterior(mask, density, contourPts, rands) ==
  LET gridW == GridSize(mask.width, density)
      gridH == GridSize(mask.height, density)
  IN  SampleLoop(mask, density, contourPts, rands, 0,
                 [points |-> <<>>,
                  grid   |-> [cell \in (0..(gridW - 1)) \X (0..(gridH - 1)) |-> -1]])

\* masks of DEFAULT_DENSITY x DEFAULT_DENSITY pixels (four candidates):
\* filled, and with the top right quarter transparent
SampleMasks ==
  {MaskOf(DEFAULT_DENSITY, DEFAULT_DENSITY,
          (0..(DEFAULT_DENSITY - 1)) \X (0..(DEFAULT_DENSITY - 1))),
   MaskOf(DEFAULT_DENSITY, DEFAULT_DENSITY,
          {pt \in (0..(DEFAULT_DENSITY - 1)) \X (0..(DEFAULT_DENSITY - 1)) :
             pt[1] < DEFAULT_DENSITY \div 2 \/ pt[2] >= DEFAULT_DENSITY \div 2})}

\* contourPts: left out, the corner at the origin, the opposite corner
SampleContours == {<<>>, <<(<<0, 0>>)>>, <<(<<DEFAULT_DENSITY - 1, DEFAULT_DENSITY - 1>>)>>}

\* rand() yielding 0, 1/2 or 1, twice per candidate
SampleRands == [1..8 -> 0..2]

CallSampleInterior(mask, density, contourPts, rands) ==
  /\ fCall = NoCall
  /\ fCall' = [fn |-> "sampleInterior", mask |-> mask, density |-> density,
               contourPts |-> contourPts, rands |-> rands]
  /\ fRet' = Returned(sampleInterior(mask, density, contourPts, rands))

CallSampleInteriorAny ==
  /\ fCall = NoCall
  /\ \E mask \in SampleMasks, contourPts \in SampleContours, rands \in SampleRands :
       CallSampleInterior(mask, DEFAULT_DENSITY, contourPts, rands)

(***************************************************************************)
(* engine/physics.ts : a call of getAngle on a chain whose last point has  *)
(* been moved, as the tests do by writing chain.points                     *)
(***************************************************************************)
\* a new chain of `segments` segments at `anchor` whose last point is moved
\* to the first point plus offset
ChainWithLast(anchor, segments, offset) ==
  LET chain   == PhysicsChain_new(anchor, 4, segments, <<9, 10>>, <<Fx(0), Fx(0)>>)
      lastIdx == segments * 2
  IN  [chain EXCEPT !.points =
         [k \in 1..Len(chain.points) |->
            IF k = lastIdx + 1 THEN chain.points[1] + offset[1]
            ELSE IF k = lastIdx + 2 THEN chain.points[2] + offset[2]
            ELSE chain.points[k]] \o <<>>]

\* offsets of the last point from the first: none, the smallest the number
\* model has, and 50 and 100 units, either way
AngleOffsets == {-Fx(100), -Fx(50), -1, 0, 1, Fx(50), Fx(100)}

CallGetAngle(chain) ==
  /\ fCall = NoCall
  /\ fCall' = [fn |-> "getAngle", chain |-> chain]
  /\ fRet' = Returned(getAngle(chain))

CallGetAngleAny ==
  /\ fCall = NoCall
  /\ \E anchor \in {<<0, 0>>, <<3, -2>>}, segments \in 1..MaxChainSegments :
       \E ox \in AngleOffsets, oy \in AngleOffsets :
         CallGetAngle(ChainWithLast(anchor, segments, <<ox, oy>>))

(***************************************************************************)
(* engine/physics.ts : a call of constrain(i, j) on a chain of two         *)
(* segments whose points have been written, as the tests write them        *)
(***************************************************************************)
\* the points arrays of three points on the grid 0..MaxPointCoord
ConstrainPoints == [1..6 -> {Fx(k) : k \in 0..MaxPointCoord}]

\* segmentLength of a chain of length 2 or 4 with two segments
ConstrainLengths == {Fx(1), Fx(2)}

CallConstrain(points, segmentLength, i, j) ==
  /\ fCall = NoCall
  /\ fCall' = [fn |-> "constrain", points |-> points, segmentLength |-> segmentLength,
               i |-> i, j |-> j]
  /\ fRet' = [type |-> "return",
              points |-> constrain(points, segmentLength, i, j),
              divisors |-> constrainDivisors(points, segmentLength, i, j)]

CallConstrainAny ==
  /\ fCall = NoCall
  /\ \E points \in ConstrainPoints, segmentLength \in ConstrainLengths :
       \E i \in 0..2, j \in 0..2 : CallConstrain(points, segmentLength, i, j)

(***************************************************************************)
(* rig.ts : RigSchema, validateRig and loadRig                             *)
(*                                                                         *)
(* The argument of loadRig is a string: either one JSON.parse rejects, or  *)
(* the JSON text of a value, held here as that value.  A rig value is      *)
(* [parts, parameters, physics]; a parameter is [id, range].  The fields   *)
(* that every rig of the model has well-formed (version, canvas, zIndex,   *)
(* texture, default, keys) are left out.                                   *)
(***************************************************************************)
Thrown(message) == [type |-> "throw", name |-> "Error", message |-> message]

\* RigSchema.safeParse(raw).success, for the fields of the model: at least
\* one part, meshes of at least 3 vertices, 3 uvs and 1 triangle, and
\* non-empty parameter ids and physics bindings; `range` is a tuple of two
\* numbers, which every parameter of the model has
RigSchema_success(raw) ==
  /\ Len(raw.parts) >= 1
  /\ \A i \in 1..Len(raw.parts) :
       /\ Len(raw.parts[i].mesh.vertices) >= 3
       /\ Len(raw.parts[i].mesh.uvs) >= 3
       /\ Len(raw.parts[i].mesh.triangles) >= 1
  /\ \A i \in 1..Len(raw.parameters) :
       /\ raw.parameters[i].id # ""
       /\ Len(raw.parameters[i].range) = 2
  /\ \A i \in 1..Len(raw.physics) : raw.physics[i].paramBinding # ""

\* the checks validateRig makes on one part, in order: the message of the
\* first that fails, "" when none does
PartError(part, paramIds) ==
  LET mesh == part.mesh
  IN  IF Len(mesh.vertices) # Len(mesh.uvs)
      THEN "vertex count does not match UV count"
      ELSE IF \E i \in 1..Len(mesh.triangles) : \E c \in 1..3 :
                mesh.triangles[i][c] >= Len(mesh.vertices)
      THEN "index out of bounds"
      ELSE IF \E i \in 1..Len(part.deformers) : part.deformers[i].paramBinding \notin paramIds
      THEN "deformer references unknown parameter"
      ELSE ""

\* the loop over rig.parts from part i on
RECURSIVE PartsError(_, _, _)
PartsError(rig, paramIds, i) ==
  IF i > Len(rig.parts) THEN ""
  ELSE IF PartError(rig.parts[i], paramIds) # "" THEN PartError(rig.parts[i], paramIds)
  ELSE PartsError(rig, paramIds, i + 1)

\* validateRig without its loop over rig.physics
validateRigPartsOnly(rig) ==
  LET paramIds == {rig.parameters[i].id : i \in 1..Len(rig.parameters)}
  IN  PartsError(rig, paramIds, 1)

\* validateRig(rig): the message of the Error it throws, "" when it returns
validateRig(rig) ==
  LET paramIds == {rig.parameters[i].id : i \in 1..Len(rig.parameters)}
  IN  IF PartsError(rig, paramIds, 1) # "" THEN PartsError(rig, paramIds, 1)
      ELSE IF \E i \in 1..Len(rig.physics) : rig.physics[i].paramBinding \notin paramIds
      THEN "physics references unknown parameter"
      ELSE ""

\* the outcome of loadRig(jsonString)
loadRig(jsonString) ==
  IF jsonString.type = "malformed" THEN Thrown("Invalid JSON")
  ELSE LET raw == jsonString.value
       IN  IF ~RigSchema_success(raw) THEN Thrown("Rig validation failed")
           ELSE IF validateRig(raw) # "" THEN Thrown(validateRig(raw))
           ELSE Returned(raw)

\* meshes: sound, one UV short, and with a triangle on a vertex that is not there
RigMeshes ==
  LET square == <<<<0, 0>>, <<2, 0>>, <<2, 2>>, <<0, 2>>>>
  IN  {[vertices |-> square, uvs |-> square, triangles |-> <<(<<0, 1, 2>>), (<<0, 2, 3>>)>>],
       [vertices |-> square, uvs |-> SubSeq(square, 1, 3), triangles |-> <<(<<0, 1, 2>>)>>],
       [vertices |-> square, uvs |-> square, triangles |-> <<(<<0, 1, 2>>), (<<0, 1, 4>>)>>]}

RotateBoundTo(id) ==
  [type |-> "rotate", paramBinding |-> id, origin |-> <<1, 1>>, childrenFollow |-> FALSE]

\* deformer lists: none, one rotation bound to either parameter, and two
\* rotations of which the second is bound to a name no rig declares or to ""
RigDeformerLists ==
  {<<>>}
    \cup {<<RotateBoundTo(b)>> : b \in {"head_angle_x", "hair_back_physics"}}
    \cup {<<RotateBoundTo("head_angle_x"), RotateBoundTo(b)>> : b \in {"nonexistent_param", ""}}

RigParts ==
  {[id |-> "face", mesh |-> m, deformers |-> d] : m \in RigMeshes, d \in RigDeformerLists}

\* parameter lists: the ranges are those of the sample rig, and for one
\* list a range whose bounds are equal and one whose bounds are swapped
RigParameterLists ==
  LET P(id) == [id |-> id, range |-> <<-30, 30>>]
  IN  {<<>>, <<P("head_angle_x")>>, <<P("hair_back_physics")>>,
       <<P("head_angle_x"), P("hair_back_physics")>>,
       <<P("head_angle_x"), [id |-> "hair_back_physics", range |-> <<0, 0>>]>>,
       <<[id |-> "head_angle_x", range |-> <<30, -30>>], P("hair_back_physics")>>}

RigPhysicsLists ==
  {<<>>} \cup {<<[target |-> "hair_back", paramBinding |-> b]>> :
                 b \in {"hair_back_physics", "nonexistent_param", ""}}

RigValues ==
  {[parts |-> parts, parameters |-> parameters, physics |-> physics] :
     parts \in UNION {[1..n -> RigParts] : n \in 0..MaxRigParts},
     parameters \in RigParameterLists,
     physics \in RigPhysicsLists}

JsonStrings ==
  {[type |-> "malformed"]} \cup {[type |-> "json", value |-> v] : v \in RigValues}

CallLoadRig(jsonString) ==
  /\ fCall = NoCall
  /\ fCall' = [fn |-> "loadRig", jsonString |-> jsonString]
  /\ fRet' = loadRig(jsonString)

CallLoadRigAny ==
  /\ fCall = NoCall
  /\ \E jsonString \in JsonStrings : CallLoadRig(jsonString)

(***************************************************************************)
(* ai/segmenter.ts : resolveOverlaps                                       *)
(*                                                                         *)
(* A Map from part name to mask is the sequence of its [name, mask]        *)
(* entries in insertion order.  ownership is an Int8Array: a store keeps   *)
(* the low 8 bits of the number as a signed value.                         *)
(***************************************************************************)
\* the value an Int8Array element holds after v is stored in it
ToInt8(v) == ((v + 128) % 256) - 128

\* data[i * 4 + 3] > 127 for the 0-based pixel i; a read past the end of
\* the data is undefined, and undefined > 127 is false
OpaqueAt(mask, i) == i < Len(mask.alpha) /\ mask.alpha[i + 1] > 127

MapHas(map, name) == \E k \in 1..Len(map) : map[k].name = name

MapGet(map, name) == (CHOOSE k \in 1..Len(map) : map[k].name = name)

\* orderedParts: the names of priorityOrder that have a mask, then, in the
\* order of masks.keys(), the names that orderedParts does not include yet
\* (the keys of a Map are distinct, so a key is missing from the growing
\* list exactly when it is missing from the filtered one)
OrderedParts(masks, priorityOrder) ==
  LET filtered == SelectSeq(priorityOrder, LAMBDA name : MapHas(masks, name))
      keys     == [k \in 1..Len(masks) |-> masks[k].name] \o <<>>
  IN  filtered \o SelectSeq(keys, LAMBDA name :
                              \A j \in 1..Len(filtered) : filtered[j] # name)

\* ownership[i] after the loop `for (pri = orderedParts.length - 1; pri >= 0;
\* pri--)`: every part opaque at i stores its pri, the last store is that of
\* the smallest such pri, and the element keeps it as an Int8
Ownership(masks, orderedParts, i) ==
  LET stores == {pri \in 0..(Len(orderedParts) - 1) :
                   OpaqueAt(masks[MapGet(masks, orderedParts[pri + 1])].mask, i)}
  IN  IF stores = {} THEN -1
      ELSE ToInt8(CHOOSE pri \in stores : \A q \in stores : pri <= q)

\* the mask `out` built for pri: opaque where ownership[i] === pri
OutMask(masks, orderedParts, width, height, pri) ==
  [width |-> width, height |-> height,
   alpha |-> [i \in 1..(width * height) |->
                IF Ownership(masks, orderedParts, i - 1) = pri THEN 255 ELSE 0] \o <<>>]

\* `resolved` after resolved.set(partName, out) for pri = 0, 1, ...: a key
\* stands where it was first set and holds the mask it was last set to
Resolved(masks, orderedParts, width, height) ==
  LET n      == Len(orderedParts)
      first  == SelectSeq([pri \in 1..n |-> pri] \o <<>>, LAMBDA pri :
                            \A q \in 1..(pri - 1) : orderedParts[q] # orderedParts[pri])
      last(name) == CHOOSE pri \in 1..n :
                      /\ orderedParts[pri] = name
                      /\ \A q \in (pri + 1)..n : orderedParts[q] # name
  IN  [k \in 1..Len(first) |->
         [name |-> orderedParts[first[k]],
          mask |-> OutMask(masks, orderedParts, width, height,
                           last(orderedParts[first[k]]) - 1)]] \o <<>>

\* resolveOverlaps(masks, priorityOrder)
resolveOverlaps(masks, priorityOrder) ==
  IF Len(masks) = 0 THEN <<>>
  ELSE Resolved(masks, OrderedParts(masks, priorityOrder),
                masks[1].mask.width, masks[1].mask.height)

\* masks of OverlapPixels pixels in one row, alpha on either side of the test
OverlapMasks ==
  {[width |-> OverlapPixels, height |-> 1, alpha |-> a] :
     a \in [1..OverlapPixels -> {127, 128}]}

OverlapNames == {"eye_left", "face", "tail"}

\* Maps of up to three parts with distinct names
SmallMaskMaps ==
  UNION {{m \in [1..n -> [name : OverlapNames, mask : OverlapMasks]] :
            \A j, k \in 1..n : j # k => m[j].name # m[k].name} : n \in 0..3}

\* more parts than an Int8Array element can number: every part opaque at
\* the first pixel, the last part alone opaque at the second
ManyParts == 129

ManyMasks ==
  [k \in 1..ManyParts |->
     [name |-> ToString(k),
      mask |-> [width |-> 2, height |-> 1,
                alpha |-> IF k = ManyParts THEN <<255, 255>> ELSE <<255, 0>>]]] \o <<>>

\* priority orders: none, PART_PRIORITY's order of the names, the reverse
\* with a name that has no mask, and one that names a part twice
PriorityOrders ==
  {<<>>, <<"eye_left", "face">>, <<"body", "face", "eye_left">>, <<"face", "face">>}

CallResolveOverlaps(masks, priorityOrder) ==
  /\ fCall = NoCall
  /\ fCall' = [fn |-> "resolveOverlaps", masks |-> masks, priorityOrder |-> priorityOrder]
  /\ fRet' = Returned(resolveOverlaps(masks, priorityOrder))

CallResolveOverlapsAny ==
  /\ fCall = NoCall
  /\ \/ \E masks \in SmallMaskMaps, priorityOrder \in PriorityOrders :
          CallResolveOverlaps(masks, priorityOrder)
     \/ CallResolveOverlaps(ManyMasks, <<>>)

(***************************************************************************)
(* main process IPC : workerRequest, and main/inpaint-worker.ts : the      *)
(* message handler of the worker                                           *)
(*                                                                         *)
(* A message and a reply carry no request id in the code; the field `of`   *)
(* of a reply is a ghost that names the request the worker answered.       *)
(***************************************************************************)
WorkerIdle ==
  /\ wSent = 0
  /\ wListeners = <<>>
  /\ wInbox = <<>>
  /\ wRunning = {}
  /\ wReplies = <<>>
  /\ wSettled = <<>>

\* workerRequest(msg) with the worker started: the executor of the promise
\* registers onMessage and sends msg
WorkerRequest ==
  /\ wSent < MaxRequests
  /\ wSent' = wSent + 1
  /\ wListeners' = Append(wListeners, wSent + 1)
  /\ wInbox' = Append(wInbox, wSent + 1)
  /\ UNCHANGED <<wRunning, wReplies, wSettled>>

\* process.on('message'): the worker receives the oldest message and its
\* handler runs up to the `await`
WorkerReceive ==
  /\ wInbox # <<>>
  /\ wRunning' = wRunning \cup {Head(wInbox)}
  /\ wInbox' = Tail(wInbox)
  /\ UNCHANGED <<wSent, wListeners, wReplies, wSettled>>

\* the awaited work of a handler is done: process.send of its reply
WorkerSend(request) ==
  /\ request \in wRunning
  /\ wRunning' = wRunning \ {request}
  /\ wReplies' = Append(wReplies, [type |-> "result", of |-> request])
  /\ UNCHANGED <<wSent, wListeners, wInbox, wSettled>>

\* the child process emits 'message' for the oldest reply: every listener
\* registered at that moment is called with it; each removes itself and
\* settles its promise
MainReceive ==
  /\ wReplies # <<>>
  /\ wReplies' = Tail(wReplies)
  /\ wSettled' = [request \in DOMAIN wSettled \cup {wListeners[k] : k \in 1..Len(wListeners)} |->
                    IF request \in DOMAIN wSettled THEN wSettled[request]
                    ELSE Head(wReplies).of]
  /\ wListeners' = <<>>
  /\ UNCHANGED <<wSent, wInbox, wRunning>>

WorkerSendAny == \E request \in wRunning : WorkerSend(request)

(***************************************************************************)
(* ui/events.ts : EventBus                                                 *)
(*                                                                         *)
(* listeners is a Map from event to a Set of callbacks: a function whose   *)
(* domain is the events that have a Set, each Set being the sequence of    *)
(* its members in insertion order, which is the order a Set is iterated    *)
(* in.  The callbacks are spies, as in the tests: being invoked is all     *)
(* they do, and bCalls records it.                                         *)
(***************************************************************************)
BusEvents == {"ping", "count"}

BusCallbacks == {"cb1", "cb2"}

BusData == {1, 2}

\* an array push: the callback is appended even when it is already there
ArrayPush(set, cb) == Append(set, cb)

\* Set.prototype.add
SetAdd(set, cb) ==
  IF \E k \in 1..Len(set) : set[k] = cb THEN set ELSE Append(set, cb)

\* Set.prototype.delete
SetDelete(set, cb) == SelectSeq(set, LAMBDA c : c # cb)

BusIdle ==
  /\ bListeners = [e \in {} |-> <<>>]
  /\ bSubscribed = {}
  /\ bCalls = <<>>
  /\ bLast = NoCall
  /\ bOps = 0

\* on(event, cb)
On(event, cb) ==
  /\ bOps < MaxBusOps
  /\ bListeners' =
       [e \in DOMAIN bListeners \cup {event} |->
          IF e = event
          THEN SetAdd(IF event \in DOMAIN bListeners THEN bListeners[event] ELSE <<>>, cb)
          ELSE bListeners[e]]
  /\ bSubscribed' = bSubscribed \cup {<<event, cb>>}
  /\ bOps' = bOps + 1
  /\ UNCHANGED <<bCalls, bLast>>

\* off(event, cb)
Off(event, cb) ==
  /\ bOps < MaxBusOps
  /\ bListeners' =
       [e \in DOMAIN bListeners |->
          IF e = event THEN SetDelete(bListeners[e], cb) ELSE bListeners[e]]
  /\ bSubscribed' = bSubscribed \ {<<event, cb>>}
  /\ bOps' = bOps + 1
  /\ UNCHANGED <<bCalls, bLast>>

\* emit(event, data)
Emit(event, data) ==
  /\ bOps < MaxBusOps
  /\ bCalls' = IF event \in DOMAIN bListeners
               THEN [k \in 1..Len(bListeners[event]) |->
                       [cb |-> bListeners[event][k], data |-> data]] \o <<>>
               ELSE <<>>
  /\ bLast' = [event |-> event, data |-> data, op |-> bOps + 1]
  /\ bOps' = bOps + 1
  /\ UNCHANGED <<bListeners, bSubscribed>>

OnAny == \E event \in BusEvents, cb \in BusCallbacks : On(event, cb)

OffAny == \E event \in BusEvents, cb \in BusCallbacks : Off(event, cb)

EmitAny == \E event \in BusEvents, data \in BusData : Emit(event, data)

(***************************************************************************)
(* Specifications: one per component, the others at rest                   *)
(***************************************************************************)
InitDeformer == DeformerInit /\ RendererIdle /\ PhysicsIdle /\ MeshIdle /\ ContourIdle /\ CallIdle /\ BusIdle /\ ReloadIdle /\ WorkerIdle

NextDeformer == (CallWarp \/ CallRotate) /\ UNCHANGED <<rendererVars, physicsVars, meshVars, contourVars, callVars, busVars, reloadVars, workerVars>>

SpecDeformer == InitDeformer /\ [][NextDeformer]_vars

InitRenderer == RendererIdle /\ DeformerIdle /\ PhysicsIdle /\ MeshIdle /\ ContourIdle /\ CallIdle /\ BusIdle /\ ReloadIdle /\ WorkerIdle

NextRenderer ==
  (\/ LoadRigCallAny
   \/ LoadRigResumeAny
   \/ SetParameterAny
   \/ SetAllParametersAny
   \/ SelectPartAny) /\ UNCHANGED <<deformerVars, physicsVars, meshVars, contourVars, callVars, busVars, reloadVars, workerVars>>

SpecRenderer == InitRenderer /\ [][NextRenderer]_vars

InitPhysics == PhysicsIdle /\ DeformerIdle /\ RendererIdle /\ MeshIdle /\ ContourIdle /\ CallIdle /\ BusIdle /\ ReloadIdle /\ WorkerIdle

NextPhysics == (AddChainAny \/ StepAny) /\ UNCHANGED <<deformerVars, rendererVars, meshVars, contourVars, callVars, busVars, reloadVars, workerVars>>

SpecPhysics == InitPhysics /\ [][NextPhysics]_vars

InitMesh == MeshIdle /\ DeformerIdle /\ RendererIdle /\ PhysicsIdle /\ ContourIdle /\ CallIdle /\ BusIdle /\ ReloadIdle /\ WorkerIdle

NextMesh ==
  (GenerateMeshCallAny \/ GenerateMeshAttemptAny)
    /\ UNCHANGED <<deformerVars, rendererVars, physicsVars, contourVars, callVars, busVars, reloadVars, workerVars>>

SpecMesh == InitMesh /\ [][NextMesh]_vars

InitContour == ContourIdle /\ DeformerIdle /\ RendererIdle /\ PhysicsIdle /\ MeshIdle /\ CallIdle /\ BusIdle /\ ReloadIdle /\ WorkerIdle

\* an iteration, as a step of the whole state
ContourIterStep ==
  ExtractContourIter
    /\ UNCHANGED <<deformerVars, rendererVars, physicsVars, meshVars, callVars, busVars, reloadVars, workerVars>>

NextContour ==
  \/ ExtractContourCallAny
       /\ UNCHANGED <<deformerVars, rendererVars, physicsVars, meshVars, callVars, busVars, reloadVars, workerVars>>
  \/ ContourIterStep

\* extractContour is straight-line code: a loop that can iterate does
SpecContour ==
  InitContour /\ [][NextContour]_vars
    /\ WF_vars(ContourIterStep)

InitCall == CallIdle /\ DeformerIdle /\ RendererIdle /\ PhysicsIdle /\ MeshIdle /\ ContourIdle /\ BusIdle /\ ReloadIdle /\ WorkerIdle

NextSimplify ==
  CallSimplifyContourAny
    /\ UNCHANGED <<deformerVars, rendererVars, physicsVars, meshVars, contourVars, busVars, reloadVars, workerVars>>

SpecSimplify == InitCall /\ [][NextSimplify]_vars

NextUVs ==
  CallComputeUVsAny
    /\ UNCHANGED <<deformerVars, rendererVars, physicsVars, meshVars, contourVars, busVars, reloadVars, workerVars>>

SpecUVs == InitCall /\ [][NextUVs]_vars

NextAngle ==
  CallGetAngleAny
    /\ UNCHANGED <<deformerVars, rendererVars, physicsVars, meshVars, contourVars, busVars, reloadVars, workerVars>>

SpecAngle == InitCall /\ [][NextAngle]_vars

NextLoader ==
  CallLoadRigAny
    /\ UNCHANGED <<deformerVars, rendererVars, physicsVars, meshVars, contourVars, busVars, reloadVars, workerVars>>

SpecLoader == InitCall /\ [][NextLoader]_vars

InitWorker == RendererIdle /\ DeformerIdle /\ PhysicsIdle /\ MeshIdle /\ ContourIdle /\ CallIdle /\ BusIdle /\ ReloadIdle /\ WorkerIdle

NextWorker ==
  (WorkerRequest \/ WorkerReceive \/ WorkerSendAny \/ MainReceive)
    /\ UNCHANGED <<deformerVars, rendererVars, physicsVars, meshVars, contourVars, callVars,
                   busVars, reloadVars>>

SpecWorker == InitWorker /\ [][NextWorker]_vars

InitReload == RendererIdle /\ DeformerIdle /\ PhysicsIdle /\ MeshIdle /\ ContourIdle /\ CallIdle /\ BusIdle /\ ReloadIdle /\ WorkerIdle

NextReload ==
  (RigLoadedAny \/ TextureSettled)
    /\ UNCHANGED <<deformerVars, physicsVars, meshVars, contourVars, callVars, busVars, workerVars>>

SpecReload == InitReload /\ [][NextReload]_vars

NextSample ==
  CallSampleInteriorAny
    /\ UNCHANGED <<deformerVars, rendererVars, physicsVars, meshVars, contourVars, busVars, reloadVars, workerVars>>

SpecSample == InitCall /\ [][NextSample]_vars

NextConstrain ==
  CallConstrainAny
    /\ UNCHANGED <<deformerVars, rendererVars, physicsVars, meshVars, contourVars, busVars, reloadVars, workerVars>>

SpecConstrain == InitCall /\ [][NextConstrain]_vars

NextOverlaps ==
  CallResolveOverlapsAny
    /\ UNCHANGED <<deformerVars, rendererVars, physicsVars, meshVars, contourVars, busVars, reloadVars, workerVars>>

SpecOverlaps == InitCall /\ [][NextOverlaps]_vars

InitBus ==
  BusIdle /\ DeformerIdle /\ RendererIdle /\ PhysicsIdle /\ MeshIdle /\ ContourIdle /\ CallIdle
    /\ ReloadIdle /\ WorkerIdle

NextBus ==
  (OnAny \/ OffAny \/ EmitAny)
    /\ UNCHANGED <<deformerVars, rendererVars, physicsVars, meshVars, contourVars, callVars, reloadVars, workerVars>>

SpecBus == InitBus /\ [][NextBus]_vars

(***************************************************************************)
(* C5: for both deformer variants, apply leaves the input vertex buffer as *)
(* it was passed and returns a buffer of exactly the input's length.       *)
(***************************************************************************)
C5_ApplyPure ==
  dCall # NoCall => /\ dIn = dCall.vertices
                    /\ Len(dOut) = Len(dCall.vertices)

\* a rotation of a two-vertex buffer has returned a buffer that differs from its input
C5_Witness ==
  /\ dCall # NoCall
  /\ dCall.type = "rotate"
  /\ dOut # dCall.vertices
  /\ Len(dOut) = 4

(***************************************************************************)
(* C6: for every configuration the rig format accepts and finite input,    *)
(* every component of the buffer apply returns is a finite number.         *)
(***************************************************************************)
C6_ApplyFinite ==
  dCall # NoCall => \A k \in 1..Len(dOut) : IsFinite(dOut[k])

(***************************************************************************)
(* C7: at parameter value 0 every deformer returns vertices equal to its   *)
(* input.                                                                  *)
(***************************************************************************)
C7_IdentityAtZero ==
  (dCall # NoCall /\ dCall.value = R(0)) => dOut = dCall.vertices


\* deformers 1..n of a part applied in list order, each to the output of the
\* one before it, starting from `base`
RECURSIVE ComposeDeformers(_, _, _, _)
ComposeDeformers(deformers, n, base, paramValues) ==
  IF n = 0 THEN base
  ELSE DeformerApply(deformers[n].instance,
                     ComposeDeformers(deformers, n - 1, base, paramValues),
                     ParamGet(paramValues, deformers[n].paramBinding))

(***************************************************************************)
(* C1: once a deformation pass has run on a part, its live positions are   *)
(* its deformers applied in list order to its base positions at the        *)
(* current parameter values, whatever the earlier parameter values were.   *)
(***************************************************************************)
C1_LiveIsComposition ==
  \A k \in 1..Len(rParts) :
    rParts[k].deformed =>
      rParts[k].positions =
        ComposeDeformers(rParts[k].deformers, Len(rParts[k].deformers),
                         rParts[k].basePositions, rParams)

\* the rig is loaded, a pass has run on both parts with the hair swung by 90
\* degrees, and the part with two deformers has moved off its base positions
C1_Witness ==
  /\ rLoads = <<>>
  /\ Len(rParts) = 2
  /\ \A k \in 1..Len(rParts) : rParts[k].deformed
  /\ rParams["head_angle_x"] = R(0)
  /\ rParams["hair_back_physics"] = R(90)
  /\ \E k \in 1..Len(rParts) :
       /\ Len(rParts[k].deformers) = 2
       /\ rParts[k].positions # rParts[k].basePositions

(***************************************************************************)
(* C2: in every deformation pass a part is evaluated only after its        *)
(* parent, for every parent/child pair of the part hierarchy.              *)
(***************************************************************************)
C2_ParentsFirst ==
  LET names == {rEvalOrder[k] : k \in 1..Len(rEvalOrder)}
  IN  \A i \in 1..Len(rEvalOrder), j \in 1..Len(rEvalOrder) :
        ParentOf(rEvalOrder[j], names) = rEvalOrder[i] => i < j

\* the rotations of the childrenFollow deformers of a part, applied in list
\* order to `positions`
RECURSIVE FollowRotations(_, _, _, _)
FollowRotations(deformers, n, positions, paramValues) ==
  IF n = 0 THEN positions
  ELSE LET before == FollowRotations(deformers, n - 1, positions, paramValues)
           inst   == deformers[n].instance
       IN  IF inst.type = "rotate" /\ inst.childrenFollow
           THEN RotateDeformer_apply(inst, before,
                                     ParamGet(paramValues, deformers[n].paramBinding))
           ELSE before

\* `positions` of the part `id` carried into the frame of its ancestors:
\* the outermost ancestor's rotations first
RECURSIVE InAncestorFrame(_, _, _, _)
InAncestorFrame(parts, id, positions, paramValues) ==
  LET parent == ParentOf(id, {parts[j].id : j \in 1..Len(parts)})
  IN  IF parent = "null" THEN positions
      ELSE LET p == CHOOSE j \in 1..Len(parts) : parts[j].id = parent
           IN  FollowRotations(parts[p].deformers, Len(parts[p].deformers),
                               InAncestorFrame(parts, parent, positions, paramValues),
                               paramValues)

(***************************************************************************)
(* C3: the rotation of a childrenFollow rotate deformer is applied to the  *)
(* vertices of every descendant part before the descendant's own deformers *)
(* run.                                                                    *)
(***************************************************************************)
C3_ChildrenFollow ==
  \A k \in 1..Len(rParts) :
    rParts[k].deformed =>
      rParts[k].positions =
        ComposeDeformers(rParts[k].deformers, Len(rParts[k].deformers),
                         InAncestorFrame(rParts, rParts[k].id, rParts[k].basePositions,
                                         rParams),
                         rParams)

(***************************************************************************)
(* C4: the base positions of every part the renderer holds equal the mesh  *)
(* vertices the part was loaded with, through every setParameter,          *)
(* setAllParameters and part selection.                                    *)
(***************************************************************************)
C4_BaseImmutable ==
  \A k \in 1..Len(rParts) :
    rParts[k].basePositions = FlattenVertices(rParts[k].part.mesh.vertices)

\* the rig is loaded, a part is selected and a pass has moved live vertices
C4_Witness ==
  /\ rLoads = <<>>
  /\ rSelected # "null"
  /\ \E k \in 1..Len(rParts) :
       /\ rParts[k].deformed
       /\ rParts[k].positions # rParts[k].basePositions

(***************************************************************************)
(* C8: after every update(dt, anchorPos) of a chain, point 0 of the chain  *)
(* is exactly at the anchorPos of that call.                               *)
(***************************************************************************)
C8_AnchorPinned ==
  \A i \in 1..Len(pChains) :
    pChains[i].chain.updates > 0 =>
      /\ pChains[i].chain.points[1] = Fx(pChains[i].chain.lastAnchor[1])
      /\ pChains[i].chain.points[2] = Fx(pChains[i].chain.lastAnchor[2])

\* a chain has been updated twice, the last time with its anchor moved off
\* the place it was built at, and the relaxation has pulled point 1 after it
C8_Witness ==
  \E i \in 1..Len(pChains) :
    /\ pChains[i].chain.updates = 2
    /\ pChains[i].chain.lastAnchor = <<8, 0>>
    /\ pChains[i].chain.points[3] # Fx(0)
    /\ pChains[i].chain.points[1] = Fx(8)

\* the chains of the last step call that are bound to the parameter id
BoundTo(id) == {i \in 1..Len(pPrev) : pPrev[i].paramBinding = id}

\* every chain the last step call found was updated once, with the anchor
\* the resolver gives for its target
C9_UpdatedOnce ==
  \A i \in 1..Len(pPrev) :
    /\ pChains[i].chain.updates = pPrev[i].chain.updates + 1
    /\ pChains[i].chain.lastAnchor = pLast.getAnchorPos[pPrev[i].target]
    /\ pChains[i].chain.points[1] = Fx(pLast.getAnchorPos[pPrev[i].target][1])
    /\ pChains[i].chain.points[2] = Fx(pLast.getAnchorPos[pPrev[i].target][2])

\* no chain has been added since the last step call
C9_JustStepped == pLast # NoStep /\ Len(pChains) = Len(pPrev)

(***************************************************************************)
(* C9: step updates every chain exactly once with the resolver's anchor    *)
(* for its target, and the mapping it returns holds, for each chain, the   *)
(* chain's parameter id mapped to that chain's angle after the update.     *)
(***************************************************************************)
C9_EveryChainMapped ==
  C9_JustStepped =>
    /\ C9_UpdatedOnce
    /\ \A i \in 1..Len(pPrev) :
         /\ pPrev[i].paramBinding \in DOMAIN pResult
         /\ pResult[pPrev[i].paramBinding] = getAngle(pChains[i].chain)

(***************************************************************************)
(* C9, amended: step updates every chain exactly once with the resolver's  *)
(* anchor for its target, and the mapping it returns has exactly the       *)
(* chains' parameter ids as keys, each mapped to the angle after the       *)
(* update of the last chain bound to that id.                              *)
(***************************************************************************)
C9_LastChainMapped ==
  C9_JustStepped =>
    /\ C9_UpdatedOnce
    /\ DOMAIN pResult = {pPrev[i].paramBinding : i \in 1..Len(pPrev)}
    /\ \A id \in DOMAIN pResult :
         \E i \in BoundTo(id) :
           /\ \A j \in BoundTo(id) : j <= i
           /\ pResult[id] = getAngle(pChains[i].chain)

\* a step has run over two chains bound to one parameter id whose angles
\* differ after it
C9_Witness ==
  /\ C9_JustStepped
  /\ \E i \in 1..Len(pPrev), j \in 1..Len(pPrev) :
       /\ i < j
       /\ pPrev[i].paramBinding = pPrev[j].paramBinding
       /\ getAngle(pChains[i].chain) # getAngle(pChains[j].chain)
       /\ pResult[pPrev[j].paramBinding] = getAngle(pChains[j].chain)

(***************************************************************************)
(* C10: one call of generateMesh runs the sample, triangulate, project and *)
(* validate pipeline at most 3 times.                                      *)
(***************************************************************************)
C10_AtMostThreeRuns == mRuns <= 3

\* a call has returned after three runs with a mesh that is still invalid
C10_Witness ==
  /\ mPc = "returned"
  /\ mRuns = 3
  /\ mErrors # {}
  /\ mMesh # NoMesh

(***************************************************************************)
(* C11: generateMesh fails with the no-contour error, producing no mesh,   *)
(* exactly when the contour traced from the mask has fewer than 3 points;  *)
(* for every other mask it does not fail, and it returns a mesh.           *)
(***************************************************************************)
C11_NoContourError ==
  mCall # NoCall =>
     IF Len(mContour) < 3
     THEN /\ mPc = "thrown"
          /\ mOutcome = NoContourError
          /\ mMesh = NoMesh
     ELSE /\ mPc \in {"loop", "returned"}
          /\ mOutcome.type # "throw"
          /\ mPc = "loop" => mAttempt < 3
          /\ mPc = "returned" => /\ mOutcome.type = "return"
                                 /\ mOutcome.value # NoMesh
                                 /\ mOutcome.value = mMesh

\* the call on the mask of one isolated pixel has thrown
C11_Witness ==
  /\ mPc = "thrown"
  /\ Len(mContour) = 1
  /\ mOutcome = NoContourError

(***************************************************************************)
(* C12: when the mesh is still invalid after the retries are used up,      *)
(* generateMesh returns the last mesh together with its validation errors. *)
(***************************************************************************)
C12_ErrorsReturned ==
  (mPc = "returned" /\ mAttempt = 3 /\ mErrors # {}) =>
     /\ mOutcome.type = "return"
     /\ "errors" \in DOMAIN mOutcome.value
     /\ mOutcome.value.errors = mErrors

(***************************************************************************)
(* C14: every mesh generateMesh returns, valid or not, has as many UVs as  *)
(* vertices, and every index of every triangle is at least 0 and less than *)
(* the number of vertices.                                                 *)
(***************************************************************************)
C14_MeshWellFormed ==
  mOutcome.type = "return" =>
     /\ Len(mOutcome.value.uvs) = Len(mOutcome.value.vertices)
     /\ \A i \in 1..Len(mOutcome.value.triangles) : \A c \in 1..3 :
          /\ mOutcome.value.triangles[i][c] >= 0
          /\ mOutcome.value.triangles[i][c] < Len(mOutcome.value.vertices)

\* a mesh that failed validation came back with two triangles, one of them on the last vertex
C14_Witness ==
  /\ mOutcome.type = "return"
  /\ mErrors # {}
  /\ Len(mOutcome.value.vertices) = MAX_VERTICES + 1
  /\ Len(mOutcome.value.triangles) = 2
  /\ mOutcome.value.triangles[1][3] = MAX_VERTICES

(***************************************************************************)
(* C13: extractContour terminates on every mask: every trace that has      *)
(* started returns; an iteration that moves back onto the start cell is    *)
(* the last one; and a trace never takes more than 2 * width * height      *)
(* steps.                                                                  *)
(***************************************************************************)
C13_TraceTerminates ==
  /\ [](eTrace.steps <= 2 * eMask.width * eMask.height)
  /\ [][(eTrace.pc = "loop" /\ eTrace'.steps > eTrace.steps
            /\ eTrace'.pos = eTrace.start) => eTrace'.pc = "returned"]_vars
  /\ ((eTrace.pc = "loop") ~> (eTrace.pc = "returned"))

\* a trace has walked through a one-pixel-wide neck, back onto its start cell, and returned
C13_Witness ==
  /\ eTrace.pc = "returned"
  /\ eTrace.pos = eTrace.start
  /\ Len(eTrace.contour) = 3
  /\ eTrace.steps = 4
  /\ eMask.height = 1

(***************************************************************************)
(* C16: for any non-empty contour and any tolerance, simplifyContour       *)
(* returns a sequence of points that begins with the contour's first point *)
(* and ends with its last point.                                           *)
(***************************************************************************)
C16_EndpointsKept ==
  (fCall # NoCall /\ fCall.fn = "simplifyContour") =>
     /\ fRet.type = "return"
     /\ Len(fRet.value) >= 1
     /\ fRet.value[1] = fCall.contour[1]
     /\ fRet.value[Len(fRet.value)] = fCall.contour[Len(fCall.contour)]

\* the same for the tolerances that are not negative; NaN is one of them
C16_EndpointsKeptNonNegative ==
  (fCall # NoCall /\ fCall.fn = "simplifyContour" /\ ~RLt(fCall.epsilon, R(0))) =>
     /\ fRet.type = "return"
     /\ Len(fRet.value) >= 1
     /\ fRet.value[1] = fCall.contour[1]
     /\ fRet.value[Len(fRet.value)] = fCall.contour[Len(fCall.contour)]

(***************************************************************************)
(* C15: for a bounding box with w, h > 0 and any vertices, inside or       *)
(* outside the box, computeUVs returns one UV per vertex, and both         *)
(* components of every UV lie in [0, 1].                                   *)
(***************************************************************************)
C15_UVsClamped ==
  (fCall # NoCall /\ fCall.fn = "computeUVs") =>
     /\ fRet.type = "return"
     /\ Len(fRet.value) = Len(fCall.vertices)
     /\ \A k \in 1..Len(fRet.value) : \A c \in 1..2 :
          /\ ~IsNaN(fRet.value[k][c])
          /\ ~RLt(fRet.value[k][c], R(0))
          /\ ~RLt(R(1), fRet.value[k][c])

\* a vertex left of and above the box and a vertex right of and below it came out as (0, 0) and (1, 1)
C15_Witness ==
  /\ fCall # NoCall
  /\ fCall.fn = "computeUVs"
  /\ Len(fCall.vertices) = 2
  /\ RLt(fCall.vertices[1][1], R(fCall.textureBbox.x))
  /\ RLt(fCall.vertices[1][2], R(fCall.textureBbox.y))
  /\ RLt(R(fCall.textureBbox.x + fCall.textureBbox.w), fCall.vertices[2][1])
  /\ RLt(R(fCall.textureBbox.y + fCall.textureBbox.h), fCall.vertices[2][2])
  /\ fRet.value = <<<<R(0), R(0)>>, <<R(1), R(1)>>>>

(***************************************************************************)
(* C17: getAngle returns 0 when the chain's last point is directly below   *)
(* its first point (same x, greater y), a positive angle whenever the last *)
(* point has a greater x than the first, and a negative angle whenever it  *)
(* has a smaller x.                                                        *)
(***************************************************************************)
C17_AngleSign ==
  (fCall # NoCall /\ fCall.fn = "getAngle") =>
     LET points == fCall.chain.points
         ddx    == points[Len(points) - 1] - points[1]
         ddy    == points[Len(points)] - points[2]
     IN  /\ (ddx = 0 /\ ddy > 0) => fRet.value = 0
         /\ ddx > 0 => fRet.value > 0
         /\ ddx < 0 => fRet.value < 0

\* a last point far below the first and the least bit to its right gave a positive angle
C17_Witness ==
  /\ fCall # NoCall
  /\ fCall.fn = "getAngle"
  /\ fCall.chain.segments = 2
  /\ fCall.chain.points[5] - fCall.chain.points[1] = 1
  /\ fCall.chain.points[6] - fCall.chain.points[2] = Fx(100)
  /\ fRet.value > 0

(***************************************************************************)
(* C18: loadRig throws, and returns no rig, for every rig in which a       *)
(* deformer or a physics entry is bound to a parameter id that the rig's   *)
(* parameters do not declare; in every rig it returns, every binding names *)
(* a declared parameter.                                                   *)
(***************************************************************************)
C18_BindingsDeclared ==
  (fCall # NoCall /\ fCall.fn = "loadRig" /\ fCall.jsonString.type = "json") =>
     LET Declared(rig) == {rig.parameters[i].id : i \in 1..Len(rig.parameters)}
         AllBound(rig) ==
           /\ \A i \in 1..Len(rig.parts) : \A j \in 1..Len(rig.parts[i].deformers) :
                rig.parts[i].deformers[j].paramBinding \in Declared(rig)
           /\ \A i \in 1..Len(rig.physics) : rig.physics[i].paramBinding \in Declared(rig)
     IN  /\ ~AllBound(fCall.jsonString.value) => fRet.type = "throw"
         /\ fRet.type = "return" => AllBound(fRet.value)

\* a rig whose deformers are all bound to declared parameters, but whose physics entry is not, was rejected
C18_Witness ==
  /\ fCall # NoCall
  /\ fCall.fn = "loadRig"
  /\ fRet = Thrown("physics references unknown parameter")
  /\ Len(fCall.jsonString.value.parts) = 2
  /\ Len(fCall.jsonString.value.parts[2].deformers) = 1

(***************************************************************************)
(* C19: after any sequence of on and off calls, emit(event, data) invokes  *)
(* exactly the callbacks subscribed to that event at that moment (added    *)
(* with on and not since removed with off), each once and with data, and   *)
(* no callback that is subscribed only to other events.                    *)
(***************************************************************************)
C19_EmitExact ==
  [][bLast' # bLast =>
       /\ \A k \in 1..Len(bCalls') : bCalls'[k].data = bLast'.data
       /\ \A cb \in BusCallbacks :
            Cardinality({k \in 1..Len(bCalls') : bCalls'[k].cb = cb})
              = IF <<bLast'.event, cb>> \in bSubscribed THEN 1 ELSE 0]_vars

\* cb1 was subscribed to both events and taken off "ping" again; the emit of "ping" invoked cb2 alone
C19_Witness ==
  /\ bLast # NoCall
  /\ bLast.event = "ping"
  /\ bLast.op = 4
  /\ bSubscribed = {<<"count", "cb1">>, <<"ping", "cb2">>}
  /\ bCalls = <<[cb |-> "cb2", data |-> bLast.data]>>

(***************************************************************************)
(* C20: after resolveOverlaps, every pixel that is opaque in at least one  *)
(* input mask is opaque in exactly one resolved mask, that of the part of  *)
(* highest priority (earliest in the priority order, parts missing from    *)
(* the order last) whose input mask is opaque there; a pixel opaque in no  *)
(* input mask is opaque in no resolved mask.                               *)
(***************************************************************************)
C20_OnePixelOneOwner ==
  (fCall # NoCall /\ fCall.fn = "resolveOverlaps" /\ Len(fCall.masks) > 0) =>
     LET masks    == fCall.masks
         order    == fCall.priorityOrder
         resolved == fRet.value
         Rank(k)  == IF \E j \in 1..Len(order) : order[j] = masks[k].name
                     THEN CHOOSE j \in 1..Len(order) :
                            /\ order[j] = masks[k].name
                            /\ \A h \in 1..(j - 1) : order[h] # masks[k].name
                     ELSE Len(order) + k
     IN  \A i \in 0..(Len(masks[1].mask.alpha) - 1) :
           LET claimants == {k \in 1..Len(masks) : OpaqueAt(masks[k].mask, i)}
               owners    == {r \in 1..Len(resolved) : OpaqueAt(resolved[r].mask, i)}
           IN  IF claimants = {} THEN owners = {}
               ELSE LET w == CHOOSE k \in claimants : \A c \in claimants : Rank(k) <= Rank(c)
                    IN  /\ Cardinality(owners) = 1
                        /\ \A r \in owners : resolved[r].name = masks[w].name

\* the same for the calls with at most 3 parts and no part named twice in the priority order
C20_OnePixelOneOwnerSmall ==
  (/\ fCall # NoCall /\ fCall.fn = "resolveOverlaps"
   /\ Len(fCall.masks) <= 3
   /\ fCall.priorityOrder # <<"face", "face">>) =>
     C20_OnePixelOneOwner

(***************************************************************************)
(* C21: whenever the validation of an attempt reports a failure other than *)
(* too few or too many vertices, generateMesh stops retrying immediately   *)
(* and returns that attempt's mesh.                                        *)
(***************************************************************************)
C21_StopsOnOtherFailure ==
  (mRuns >= 1 /\ mErrors \cap OtherErrors # {}) =>
     /\ mPc = "returned"
     /\ mOutcome = Returned(mMesh)

\* C21 as the loop has it: the attempt is the last one when none of the
\* failures it reports is about the vertex count
C21_StopsOnOtherFailureOnly ==
  (mRuns >= 1 /\ mErrors # {} /\ mErrors \cap {"Too few", "Too many"} = {}) =>
     /\ mErrors \subseteq OtherErrors
     /\ mPc = "returned"
     /\ mOutcome = Returned(mMesh)
     /\ mAttempt = mRuns - 1

\* the first attempt had enough vertices and a degenerate triangle, and the call returned its mesh
C21_Witness ==
  /\ mRuns = 1
  /\ mErrors = {"degenerate triangle"}
  /\ mPc = "returned"
  /\ mOutcome = Returned(mMesh)

(***************************************************************************)
(* C22: between attempts of generateMesh the density is multiplied by 0.6  *)
(* but never set below 2 after an attempt that reported too few vertices,  *)
(* and multiplied by 1.5 after an attempt that reported too many; the      *)
(* density used by any attempt is at least 2.                              *)
(***************************************************************************)
C22_DensityAdjusted ==
  /\ [](mPc \in {"loop", "returned"} => ~RLt(mDensity, R(2)))
  /\ [][mRuns' = mRuns + 1 =>
          /\ ~RLt(mDensity, R(2))
          /\ "Too few" \in mErrors' =>
               mDensity' = (IF RLt(RMul(mDensity, Frac(6, 10)), R(2)) THEN R(2)
                            ELSE RMul(mDensity, Frac(6, 10)))
          /\ "Too many" \in mErrors' => mDensity' = RMul(mDensity, Frac(15, 10))
          /\ mErrors' \cap {"Too few", "Too many"} = {} => mDensity' = mDensity]_vars

\* three attempts reported too few vertices (densities 8, 4.8, 2.88) and the density was then set to the floor
C22_Witness ==
  /\ mRuns = 3
  /\ "Too few" \in mErrors
  /\ mDensity = R(2)

(***************************************************************************)
(* C23: in a relaxation of a pair of chain points of which one is point 0, *)
(* point 0 is left unchanged and the other point alone is moved, by the    *)
(* full correction; in every other pair each of the two points is moved by *)
(* half the correction, towards or away from the other.                    *)
(***************************************************************************)
C23_AnchorNotMoved ==
  (/\ fCall # NoCall /\ fCall.fn = "constrain" /\ fCall.i # fCall.j
   /\ fRet.divisors # {}) =>
     LET p     == fCall.points
         q     == fRet.points
         i     == fCall.i
         j     == fCall.j
         sepX  == p[2 * j + 1] - p[2 * i + 1]
         sepY  == p[2 * j + 2] - p[2 * i + 2]
         dist  == FxHypot(sepX, sepY)
         ratio == FxDiv(dist - fCall.segmentLength, dist)
         halfX == FxMul(FxMul(sepX, FxOne \div 2), ratio)
         halfY == FxMul(FxMul(sepY, FxOne \div 2), ratio)
         Point(a, k) == <<a[2 * k + 1], a[2 * k + 2]>>
     IN  /\ \A k \in 0..2 : k \notin {i, j} => Point(q, k) = Point(p, k)
         /\ Point(q, 0) = Point(p, 0)
         /\ i = 0 => Point(q, j) = <<p[2 * j + 1] - 2 * halfX, p[2 * j + 2] - 2 * halfY>>
         /\ j = 0 => Point(q, i) = <<p[2 * i + 1] + 2 * halfX, p[2 * i + 2] + 2 * halfY>>
         /\ (i # 0 /\ j # 0) =>
              /\ Point(q, i) = <<p[2 * i + 1] + halfX, p[2 * i + 2] + halfY>>
              /\ Point(q, j) = <<p[2 * j + 1] - halfX, p[2 * j + 2] - halfY>>

\* constrain(0, 1) on points 2 apart with a rest length of 1 has moved point 1 and not point 0
C23_Witness ==
  /\ fCall # NoCall /\ fCall.fn = "constrain"
  /\ fCall.i = 0 /\ fCall.j = 1
  /\ fCall.segmentLength = Fx(1)
  /\ fCall.points[1] = Fx(0) /\ fCall.points[2] = Fx(0)
  /\ fCall.points[3] = Fx(0) /\ fCall.points[4] = Fx(2)
  /\ fRet.points[4] = Fx(1)
  /\ fRet.points[1] = Fx(0) /\ fRet.points[2] = Fx(0)

(***************************************************************************)
(* C24: a relaxation of two chain points that have zero separation leaves  *)
(* both points unchanged and performs no division by zero.                 *)
(***************************************************************************)
C24_ZeroSeparationNoOp ==
  (/\ fCall # NoCall /\ fCall.fn = "constrain"
   /\ fCall.points[2 * fCall.i + 1] = fCall.points[2 * fCall.j + 1]
   /\ fCall.points[2 * fCall.i + 2] = fCall.points[2 * fCall.j + 2]) =>
     /\ fRet.points = fCall.points
     /\ 0 \notin fRet.divisors

\* constrain(1, 2) was called with points 1 and 2 at the same place, away from point 0
C24_Witness ==
  /\ fCall # NoCall /\ fCall.fn = "constrain"
  /\ fCall.i = 1 /\ fCall.j = 2
  /\ fCall.points[3] = fCall.points[5] /\ fCall.points[4] = fCall.points[6]
  /\ fCall.points[1] # fCall.points[3]
  /\ fRet.points = fCall.points

\* the orders in which n chains can be processed
ChainOrders(n) == {f \in [1..n -> 1..n] : \A a, b \in 1..n : a # b => f[a] # f[b]}

(***************************************************************************)
(* C25: the chains of a PhysicsEngine do not interact: what a step leaves  *)
(* in a chain is the update of that chain alone, and for chains bound to   *)
(* distinct parameter ids the positions of every chain and the mapping     *)
(* step returns are the same for every order in which the chains are       *)
(* processed.                                                              *)
(***************************************************************************)
C25_ChainsIndependent ==
  (/\ C9_JustStepped
   /\ \A a, b \in 1..Len(pPrev) : a # b => pPrev[a].paramBinding # pPrev[b].paramBinding) =>
     /\ \A k \in 1..Len(pPrev) :
          pChains[k].chain =
            PhysicsChain_update(pPrev[k].chain, pLast.dt, pLast.getAnchorPos[pPrev[k].target])
     /\ \A order \in ChainOrders(Len(pPrev)) :
          LET res == StepLoop([k \in 1..Len(pPrev) |-> pPrev[order[k]]] \o <<>>, 1,
                              pLast.dt, pLast.getAnchorPos, EmptyMap)
          IN  /\ \A k \in 1..Len(pPrev) : res.chains[k] = pChains[order[k]]
              /\ res.paramValues = pResult

\* a step of a quarter of a second has moved two chains with parameter ids
\* of their own, whose anchors the resolver puts at different places
C25_Witness ==
  /\ C9_JustStepped
  /\ Len(pPrev) = 2
  /\ pPrev[1].paramBinding # pPrev[2].paramBinding
  /\ pLast.dt # 0
  /\ pLast.getAnchorPos[pPrev[1].target] # pLast.getAnchorPos[pPrev[2].target]
  /\ pChains[1].chain.points # pPrev[1].chain.points
  /\ pChains[2].chain.points # pPrev[2].chain.points

(***************************************************************************)
(* C26: sampleInterior accepts a candidate only if no previously accepted  *)
(* point located in the candidate's acceleration-grid cell or in a         *)
(* neighbouring cell is closer to it than the candidate's spacing          *)
(* threshold (density, or density / 2 inside the boundary band).           *)
(***************************************************************************)
C26_MinimumSeparation ==
  (fCall # NoCall /\ fCall.fn = "sampleInterior") =>
     LET points == fRet.value
         Cell(pt) == <<CellOf(pt[1], fCall.density), CellOf(pt[2], fCall.density)>>
         Near(a, b) == /\ Cell(a)[1] - Cell(b)[1] \in -1..1
                       /\ Cell(a)[2] - Cell(b)[2] \in -1..1
         DistSq(a, b) == (a[1] - b[1]) * (a[1] - b[1]) + (a[2] - b[2]) * (a[2] - b[2])
     IN  \A k \in 1..Len(points) : \A h \in 1..(k - 1) :
           Near(points[k], points[h]) =>
             4 * DistSq(points[k], points[h]) >=
               MinDistSq4(fCall.mask, fCall.density, fCall.contourPts,
                          points[k][1], points[k][2])

(***************************************************************************)
(* C27: every parameter of a rig accepted by loadRig has a range           *)
(* (min, max) with min < max.                                              *)
(***************************************************************************)
C27_RangeOrdered ==
  (fCall # NoCall /\ fCall.fn = "loadRig" /\ fRet.type = "return") =>
     \A i \in 1..Len(fRet.value.parameters) :
       fRet.value.parameters[i].range[1] < fRet.value.parameters[i].range[2]

(***************************************************************************)
(* C29: as soon as loadRig has completed and before any parameter is       *)
(* changed, each part's live positions are its deformers applied to its    *)
(* base positions at the parameters' default values (so that setting a     *)
(* parameter to the value it already has moves no vertex).                 *)
(***************************************************************************)
C29_LoadedAtDefaults ==
  (/\ rLoads = <<>>
   /\ rParts # <<>>
   /\ \A k \in 1..Len(rParts) : ~rParts[k].deformed
   /\ \A i \in 1..Len(RigParameters) :
        /\ RigParameters[i].id \in DOMAIN rParams
        /\ rParams[RigParameters[i].id] = RigParameters[i].default) =>
     \A k \in 1..Len(rParts) :
       rParts[k].positions =
         ComposeDeformers(rParts[k].deformers, Len(rParts[k].deformers),
                          rParts[k].basePositions, rParams)

(***************************************************************************)
(* C28: if loadRig is called again before an earlier loadRig call has      *)
(* finished, then once all calls have completed the renderer holds exactly *)
(* the parts and the parameter defaults of the most recently requested     *)
(* rig, and no part of the earlier rig.                                    *)
(***************************************************************************)
C28_LastRigWins ==
  (Len(rRequested) >= 2 /\ rLoads = <<>>) =>
     LET rig == rRequested[Len(rRequested)]
     IN  /\ {rParts[k].id : k \in 1..Len(rParts)} = {rig.parts[i].id : i \in 1..Len(rig.parts)}
         /\ \A k \in 1..Len(rParts) : \E i \in 1..Len(rig.parts) : rParts[k].part = rig.parts[i]
         /\ DOMAIN rParams = {rig.parameters[i].id : i \in 1..Len(rig.parameters)}
         /\ \A i \in 1..Len(rig.parameters) :
              rParams[rig.parameters[i].id] = rig.parameters[i].default

(***************************************************************************)
(* C30: when several requests to the inpaint worker are outstanding at the *)
(* same time, the promise of each request is settled by the worker's reply *)
(* to that same request, and never by the reply to another request.        *)
(***************************************************************************)
C30_ReplyMatchesRequest ==
  \A request \in DOMAIN wSettled : wSettled[request] = request

====
